---- MODULE Spec2Model ----
(***************************************************************************)
(* Model of the AFixL orchestration engine (package afixl): the crash      *)
(* repository, the four pipeline tasks (fuzz, replay, repair, evaluate)    *)
(* and the Manager's cooperative polling loop.                             *)
(*                                                                         *)
(* Python object references are modelled by crash ids: a task's in-flight  *)
(* crash (_replaying_crash, _fixing_crash, _evaluating_crash) is the very  *)
(* object stored in CrashRepository._crashes, so a field assignment on it  *)
(* is visible in the repository at once.                                   *)
(*                                                                         *)
(* Manager.__init__ passes (repository, config, name) to the tasks while   *)
(* Task.__init__ takes (repository, name); the model follows the tasks'    *)
(* own use of self._config, i.e. the three-argument constructor.           *)
(***************************************************************************)
EXTENDS Integers, Sequences, FiniteSets, TLC

VARIABLES
    crashes,            \* CrashRepository._crashes: list of Crash records
    phase,              \* Manager: "enter" in __enter__, "failed" when it raised, "check" at
                        \* the while condition of run, "run" in its for loop, "exit" once
                        \* the loop is left, "closed" after close()
    raised,             \* the exception that left a task's run(), or "none"
    task_idx,           \* Manager.__enter__ and run: index in _tasks of the task to
                        \* initialize or to run next
    out_dir,            \* sandbox of Fuzz: /out/default/crashes, <<>> when missing, else <<files>>
    fuzz_handle,        \* FuzzTask._fuzz_handle
    is_resuming,        \* FuzzTask._is_resuming
    seen_crashes,       \* FuzzTask._seen_crashes
    replay_handle,      \* ReplayTask._replay_handle
    replaying_crash,    \* ReplayTask._replaying_crash (crash id, 0 for None)
    output_handle,      \* RepairTask._output_handle: the future of the agent request
    fixing_crash,       \* RepairTask._fixing_crash (crash id, 0 for None)
    last_repairing,     \* the crash of RepairTask's last "Repairing crash" log line (0: none yet)
    instance,           \* RepairTask._instance: "none" or "open"
    agent_quota,        \* environment: replies the agent service still grants
    docker_instance,    \* EvaluateTask._docker_instance: "none" or "open"
    sandbox_files,      \* files of Evaluate's sandbox, as written so far
    build_handle,       \* EvaluateTask._build_handle
    evaluate_handle,    \* EvaluateTask._evaluate_handle
    evaluating_crash,   \* EvaluateTask._evaluating_crash (crash id, 0 for None)
    patches_dir,        \* PROJECT_ROOT/patches: ids of the persisted records
    expired,            \* the clock: time.time() - _start_time has reached timeout_seconds
    initialized,        \* the tasks whose initialize() has returned, in call order
    closed,             \* the tasks whose close() has been called, in call order
    fuzz_instance,      \* FuzzTask._docker_instance: "none", "open" or "closed"
    replay_instance,    \* ReplayTask._docker_instance: "none", "open" or "closed"
    reads               \* what the reads of an ExecHandle's properties returned, in order

vars == <<crashes, phase, raised, task_idx, out_dir, fuzz_handle, is_resuming,
          seen_crashes, replay_handle, replaying_crash, output_handle,
          fixing_crash, last_repairing, instance, agent_quota, docker_instance,
          sandbox_files,
          build_handle, evaluate_handle, evaluating_crash, patches_dir,
          expired, initialized, closed, fuzz_instance, replay_instance, reads>>

\* the variables no task's run() writes
outside_run == <<expired, initialized, closed, fuzz_instance, replay_instance, reads>>

----------------------------------------------------------------------------
(* Bounds of the model *)

\* crash artifacts ("id:..." files) the fuzzer can produce in one run
MaxArtifacts == 2
\* replies the agent service grants before every further call fails
MaxReplies == 2

(* Program constants *)

\* afixl/backend/repair/task.py: TIMES_THRESHOLD
TIMES_THRESHOLD == 15

----------------------------------------------------------------------------
(* Values *)

\* Python None for a crash reference
NoCrash == 0

\* Optional values: <<>> is None, <<v>> is the value v
None == <<>>
Some(v) == <<v>>

\* CrashStage (models.py)
CrashStage == {"fuzz", "replay", "repair", "evaluate"}

\* Byte strings are sequences of chunks; the chunk "\\xff" is not valid UTF-8.
BannerASan == "ERROR: AddressSanitizer"
BannerUBSan == "ERROR: UndefinedBehaviorSanitizer"
BadByte == "\\xff"

\* captured outputs of a replayed target
Outputs ==
    { <<>>,
      <<"==1==", BannerASan, ": heap-buffer-overflow">>,
      <<"runtime error", BannerUBSan>>,
      <<"Segmentation fault">>,
      <<BadByte, BannerASan>> }

\* exit codes of a command (124 is what the timeout wrapper returns)
ExitCodes == {0, 1, 124}

\* bytes.decode(): the text of a byte string; defined only when Decodable
Decodable(bytes) == \A i \in DOMAIN bytes : bytes[i] # BadByte
Decode(bytes) == [i \in DOMAIN bytes |-> [char |-> bytes[i]]]
\* str.encode("utf-8")
Encode(text) == [i \in DOMAIN text |-> text[i].char]
\* needle in text
Contains(text, needle) == \E i \in DOMAIN text : text[i].char = needle

----------------------------------------------------------------------------
(* ExecHandle (docker/exec_handle.py) *)

NoHandle == [alive |-> FALSE, running |-> FALSE, exit_code |-> None, output |-> None]

\* ExecHandle.__init__: a started command, nothing cached yet
NewHandle == [alive |-> TRUE, running |-> TRUE, exit_code |-> None, output |-> None]

\* what exec_inspect and the output stream can deliver at a poll
Inspections ==
    { [Running |-> TRUE, ExitCode |-> 0, Output |-> <<>>] } \cup
    { [Running |-> FALSE, ExitCode |-> e, Output |-> o] : e \in ExitCodes, o \in Outputs }

\* FetchResults without the early return for a completed command
FetchResultsUncached(h, inspection) ==
    IF inspection.Running THEN [h EXCEPT !.running = TRUE]
    ELSE [h EXCEPT !.running = FALSE,
                   !.exit_code = Some(inspection.ExitCode),
                   !.output = Some(inspection.Output)]

\* ExecHandle._fetch_results
FetchResults(h, inspection) ==
    IF ~h.running THEN h
    ELSE IF inspection.Running THEN h
    ELSE [h EXCEPT !.running = FALSE,
                   !.exit_code = Some(inspection.ExitCode),
                   !.output = Some(inspection.Output)]

\* the polls a handle can see: a handle that is None is not polled
Polls(h, inspections) ==
    IF h.alive THEN inspections ELSE { [Running |-> TRUE, ExitCode |-> 0, Output |-> <<>>] }

----------------------------------------------------------------------------
(* CrashRepository (orchestration/crash.py) *)

\* Crash(stage=..., input=...) with the defaults of models.py
NewCrash(id, stage, input) ==
    [id |-> id, stage |-> stage, reproducable |-> "None", input |-> input,
     report |-> None, requested_content |-> <<>>, note |-> <<>>,
     valid_patches |-> None, retry_count |-> 0, history |-> <<>>]

\* add_crash without the check for an id already present
add_crash_unchecked(cs, crash) == Append(cs, crash)

\* CrashRepository.add_crash
add_crash(cs, crash) ==
    IF \E i \in DOMAIN cs : cs[i].id = crash.id
    THEN cs
    ELSE Append(cs, crash)

\* the records of a list
Records(cs) == { cs[i] : i \in DOMAIN cs }

\* the accepted records of cs[from..], latest first
RECURSIVE AcceptedLatestFirst(_, _, _)
AcceptedLatestFirst(cs, accepted, from) ==
    IF from > Len(cs) THEN <<>>
    ELSE AcceptedLatestFirst(cs, accepted, from + 1)
            \o (IF cs[from] \in accepted THEN <<cs[from]>> ELSE <<>>)

\* a query that returns the matches in reverse insertion order
get_crashes_latest_first(cs, accepted) == AcceptedLatestFirst(cs, accepted, 1)

\* CrashRepository.get_crashes(filter): the records the filter accepts, in
\* list order; the filter is given as the set of records it accepts
get_crashes(cs, accepted) == SelectSeq(cs, LAMBDA crash : crash \in accepted)

\* an update_crash that inserts the record when no record has its id
update_crash_inserting(cs, crash) ==
    IF \E i \in DOMAIN cs : cs[i].id = crash.id
    THEN [j \in DOMAIN cs |->
            IF cs[j].id = crash.id /\ \A k \in 1..(j - 1) : cs[k].id # crash.id
            THEN crash ELSE cs[j]]
    ELSE Append(cs, crash)

\* CrashRepository.update_crash: replace the first record with that id
UpdateFrom(cs, crash, i) ==
    [j \in DOMAIN cs |-> IF j = i THEN crash ELSE cs[j]]

update_crash(cs, crash) ==
    IF \E i \in DOMAIN cs : cs[i].id = crash.id
    THEN UpdateFrom(cs, crash,
                    CHOOSE i \in DOMAIN cs :
                        /\ cs[i].id = crash.id
                        /\ \A j \in 1..(i - 1) : cs[j].id # crash.id)
    ELSE cs

\* A field assignment through a reference: the object with that id, wherever
\* the list holds it, now has the new field values.
Assign(cs, crash) ==
    [j \in DOMAIN cs |-> IF cs[j].id = crash.id THEN crash ELSE cs[j]]

\* The object a reference points to
Deref(cs, id) == cs[CHOOSE i \in DOMAIN cs : cs[i].id = id]

----------------------------------------------------------------------------
(* Manager (orchestration/manager.py) *)

\* Manager._tasks, in list order
Tasks == <<"fuzz", "replay", "repair", "evaluate">>

\* Manager.run: the task after task i in `for task in self._tasks`, wrapping
\* to the first one for the next iteration of the while loop
NextTask(i) == IF i = Len(Tasks) THEN 1 ELSE i + 1

\* A task's run() returned: the for loop goes on with the next task; after
\* the last one Manager.run sleeps (line 84) and is back at its while condition
Returned ==
    /\ task_idx' = NextTask(task_idx)
    /\ phase' = IF task_idx = Len(Tasks) THEN "check" ELSE phase
    /\ UNCHANGED <<raised, outside_run>>

\* An exception left a task's run(): it leaves Manager.run, and the with
\* block of main.py is about to call Manager.__exit__
Raised(exception) ==
    /\ phase' = "exit"
    /\ raised' = exception
    /\ UNCHANGED <<task_idx, outside_run>>

----------------------------------------------------------------------------
(* FuzzTask (backend/fuzz/task.py) *)

\* names of the files afl-fuzz can leave in /out/default/crashes
ArtifactNames ==
    { <<"README.txt", 0>> } \cup { <<"id:", n>> : n \in 1..MaxArtifacts }

\* file_name.startswith("id:")
StartsWithId(name) == name[1] = "id:"

\* the bytes of an artifact
ArtifactData(name) == <<"input", name[2]>>

\* uuid.uuid4(): an id no record carries yet
Uuid(cs) == Len(cs) + 1

\* ExtractCrashes without the test against the seen set
RECURSIVE ExtractCrashesUnseen(_, _, _)
ExtractCrashesUnseen(listing, cs, seen) ==
    IF listing = <<>> THEN [crashes |-> cs, seen |-> seen]
    ELSE LET file_name == Head(listing) IN
         IF StartsWithId(file_name)
         THEN ExtractCrashesUnseen(Tail(listing),
                                   add_crash(cs, NewCrash(Uuid(cs), "fuzz", ArtifactData(file_name))),
                                   seen \cup {file_name})
         ELSE ExtractCrashesUnseen(Tail(listing), cs, seen)

\* the loop over the tar members of /out/default/crashes: listing is the
\* sequence of file members, in archive order
RECURSIVE ExtractCrashes(_, _, _)
ExtractCrashes(listing, cs, seen) ==
    IF listing = <<>> THEN [crashes |-> cs, seen |-> seen]
    ELSE LET file_name == Head(listing) IN
         IF StartsWithId(file_name) /\ file_name \notin seen
         THEN ExtractCrashes(Tail(listing),
                             add_crash(cs, NewCrash(Uuid(cs), "fuzz", ArtifactData(file_name))),
                             seen \cup {file_name})
         ELSE ExtractCrashes(Tail(listing), cs, seen)

\* the order in which the archive of the directory lists its files: the
\* container runtime walks a directory in name order ("README.txt" sorts
\* before "id:...")
Listings(files) ==
    { l \in [1..Cardinality(files) -> files] :
        \A i, j \in 1..Cardinality(files) : i < j => l[i][2] < l[j][2] }

\* afl-fuzz numbers its crash files in the order it finds them and writes
\* README.txt beside the first: the directory after n crashes
DirWith(n) ==
    IF n = 0 THEN {} ELSE { <<"README.txt", 0>> } \cup { <<"id:", k>> : k \in 1..n }

\* what the results directory can be when a campaign ends: missing (afl-fuzz
\* did not start) or holding the files it held and the new ones
DirsAfterCampaign(dir) ==
    IF dir = None
    THEN {None} \cup { Some(DirWith(n)) : n \in 0..MaxArtifacts }
    ELSE { Some(DirWith(n)) : n \in { m \in 0..MaxArtifacts : dir[1] \subseteq DirWith(m) } }

\* a FuzzTask.run that takes a missing results directory for an empty one
\* and drops the handle
FuzzRunForgiving ==
    /\ phase = "run"
    /\ Tasks[task_idx] = "fuzz"
    /\ LET launch == ~fuzz_handle.alive
           h0 == IF launch THEN NewHandle ELSE fuzz_handle
       IN \E running \in BOOLEAN :
            LET h1 == FetchResults(h0, [Running |-> running, ExitCode |-> 0, Output |-> <<>>])
            IN
            /\ is_resuming' = (launch \/ is_resuming)
            /\ IF h1.running
               THEN /\ fuzz_handle' = h1
                    /\ UNCHANGED <<crashes, seen_crashes, out_dir>>
                    /\ Returned
               ELSE \E dir \in DirsAfterCampaign(out_dir) :
                      /\ out_dir' = dir
                      /\ IF dir = None
                         THEN /\ fuzz_handle' = NoHandle
                              /\ UNCHANGED <<crashes, seen_crashes>>
                              /\ Returned
                         ELSE \E listing \in Listings(dir[1]) :
                                LET r == ExtractCrashes(listing, crashes, seen_crashes)
                                IN /\ crashes' = r.crashes
                                   /\ seen_crashes' = r.seen
                                   /\ fuzz_handle' = NoHandle
                                   /\ Returned
    /\ UNCHANGED <<replay_handle, replaying_crash, output_handle, fixing_crash, last_repairing,
                   instance, agent_quota, docker_instance, sandbox_files,
                   build_handle, evaluate_handle, evaluating_crash, patches_dir>>

\* FuzzTask.run
FuzzRun ==
    /\ phase = "run"
    /\ Tasks[task_idx] = "fuzz"
    /\ LET launch == ~fuzz_handle.alive
           h0 == IF launch THEN NewHandle ELSE fuzz_handle
       IN \E running \in BOOLEAN :
            LET h1 == FetchResults(h0, [Running |-> running, ExitCode |-> 0, Output |-> <<>>])
            IN
            /\ is_resuming' = (launch \/ is_resuming)
            /\ IF h1.running
               THEN /\ fuzz_handle' = h1
                    /\ UNCHANGED <<crashes, seen_crashes, out_dir>>
                    /\ Returned
               ELSE \E dir \in DirsAfterCampaign(out_dir) :
                      /\ out_dir' = dir
                      /\ IF dir = None
                         THEN \* Instance.read raises: the path does not exist
                              /\ fuzz_handle' = h1
                              /\ UNCHANGED <<crashes, seen_crashes>>
                              /\ Raised("NotFound")
                         ELSE \E listing \in Listings(dir[1]) :
                                LET r == ExtractCrashes(listing, crashes, seen_crashes)
                                IN /\ crashes' = r.crashes
                                   /\ seen_crashes' = r.seen
                                   /\ fuzz_handle' = NoHandle
                                   /\ Returned
    /\ UNCHANGED <<replay_handle, replaying_crash, output_handle, fixing_crash, last_repairing,
                   instance, agent_quota, docker_instance, sandbox_files,
                   build_handle, evaluate_handle, evaluating_crash, patches_dir>>

----------------------------------------------------------------------------
(* ReplayTask (backend/replay/task.py) *)

\* the filter of ReplayTask.run
ReplayFilter(c) == c.stage = "fuzz" /\ c.reproducable = "None"

\* the classification with a stage name that is no CrashStage
ReplayClassifyReplayed(crash, exit_code, output) ==
    LET classified ==
            IF exit_code # 0 /\ (Contains(output, BannerASan) \/ Contains(output, BannerUBSan))
            THEN [crash EXCEPT !.reproducable = "True", !.report = Some(Encode(output))]
            ELSE [crash EXCEPT !.reproducable = "False"]
    IN [classified EXCEPT !.stage = "replayed"]

\* a classification that keeps no report of a reproduced crash
ReplayClassifyReportless(crash, exit_code, output) ==
    LET classified ==
            IF exit_code # 0 /\ (Contains(output, BannerASan) \/ Contains(output, BannerUBSan))
            THEN [crash EXCEPT !.reproducable = "True"]
            ELSE [crash EXCEPT !.reproducable = "False"]
    IN [classified EXCEPT !.stage = "replay"]

\* ReplayTask.run, lines 78-90: the crash as classified from the finished
\* command (output is the decoded text)
ReplayClassify(crash, exit_code, output) ==
    LET classified ==
            IF exit_code # 0 /\ (Contains(output, BannerASan) \/ Contains(output, BannerUBSan))
            THEN [crash EXCEPT !.reproducable = "True", !.report = Some(Encode(output))]
            ELSE [crash EXCEPT !.reproducable = "False"]
    IN [classified EXCEPT !.stage = "replay"]

\* ReplayTask.run, lines 52-75: whether this call launches a replay
ReplayLaunches == ~replay_handle.alive /\ get_crashes(crashes, { c \in Records(crashes) : ReplayFilter(c) }) # <<>>

\* the handle and the crash in flight after lines 52-75
ReplayHandle == IF ReplayLaunches THEN NewHandle ELSE replay_handle
ReplayingCrash ==
    IF ReplayLaunches THEN get_crashes(crashes, { c \in Records(crashes) : ReplayFilter(c) })[1].id ELSE replaying_crash

\* ReplayTask.run when the poll of line 77 sees this inspection
ReplayRunWith(inspection) ==
    /\ phase = "run"
    /\ Tasks[task_idx] = "replay"
    /\ LET h1 == IF ReplayHandle.alive THEN FetchResults(ReplayHandle, inspection)
                 ELSE ReplayHandle
       IN IF h1.alive /\ ~h1.running
          THEN IF ~Decodable(h1.output[1])
               THEN \* output.decode() raises UnicodeDecodeError
                    /\ replay_handle' = h1
                    /\ replaying_crash' = ReplayingCrash
                    /\ UNCHANGED crashes
                    /\ Raised("UnicodeDecodeError")
               ELSE LET crash == ReplayClassify(Deref(crashes, ReplayingCrash),
                                                h1.exit_code[1], Decode(h1.output[1]))
                    IN /\ crashes' = update_crash(Assign(crashes, crash), crash)
                       /\ replay_handle' = NoHandle
                       /\ replaying_crash' = NoCrash
                       /\ Returned
          ELSE /\ replay_handle' = h1
               /\ replaying_crash' = ReplayingCrash
               /\ UNCHANGED crashes
               /\ Returned
    /\ UNCHANGED <<out_dir, fuzz_handle, is_resuming, seen_crashes, output_handle,
                   fixing_crash, last_repairing, instance, agent_quota, docker_instance,
                   sandbox_files, build_handle, evaluate_handle, evaluating_crash,
                   patches_dir>>

\* ReplayTask.run
ReplayRun == \E inspection \in Polls(ReplayHandle, Inspections) : ReplayRunWith(inspection)

----------------------------------------------------------------------------
(* Agent actions (orchestration/models.py) *)

\* Text is a sequence of characters
NL == "\n"

\* the files of the source tree a build-mode sandbox starts with
SourceTree == [f \in {"/src/a.c"} |-> <<"a", NL, "b", NL, "c">>]

\* patch sets the agent can propose
GoodPatches ==
    << [file |-> "/src/a.c",
        diff |-> << [line_number |-> 2, content |-> << <<"X">> >>] >>] >>
OutOfRangePatches ==
    << [file |-> "/src/a.c",
        diff |-> << [line_number |-> 4, content |-> << <<"X">> >>] >>] >>
MissingFilePatches ==
    << [file |-> "/src/none.c",
        diff |-> << [line_number |-> 1, content |-> << <<"X">> >>] >>] >>
PatchSets == {GoodPatches, OutOfRangePatches, MissingFilePatches}

\* RequestCode has the fields reason and file, and no field line
RequestCodes == { [type |-> "RequestCode", reason |-> "r", file |-> "/src/a.c"] }
ProposedPatches ==
    { [type |-> "ProposedPatch", reason |-> "r", patches |-> ps, confidence |-> 0] :
        ps \in PatchSets }
MakeNotes == { [type |-> "MakeNote", content |-> "n"] }

\* output_type of the agent: ProposedPatch | RequestCode | MakeNote
Operations == RequestCodes \cup ProposedPatches \cup MakeNotes

\* how a finished agent request can end: result() raises, or gives an
\* operation (only while the service grants replies)
Failure == [type |-> "Exception"]
AgentResults(quota) == IF quota > 0 THEN Operations \cup {Failure} ELSE {Failure}

----------------------------------------------------------------------------
(* RepairTask (backend/repair/task.py) *)

\* a filter that also takes the crashes handed to Evaluate
RepairFilterWithRepair(c) ==
    c.stage \in {"replay", "repair"} /\ c.retry_count < TIMES_THRESHOLD

\* the filter of RepairTask.run
RepairFilter(c) == c.stage = "replay" /\ c.retry_count < TIMES_THRESHOLD

\* the future of a submitted agent request
NoFuture == [alive |-> FALSE]
NewFuture == [alive |-> TRUE]

\* a _do_operation that records a MakeNote in history only
DoOperationBodyNoteless(crash, operation) ==
    LET c1 == [crash EXCEPT !.history = Append(@, operation)] IN
    IF operation.type = "RequestCode"
    THEN [crash |-> c1, stored |-> FALSE, raised |-> TRUE]
    ELSE IF operation.type = "ProposedPatch"
    THEN [crash |-> [c1 EXCEPT !.stage = "repair"], stored |-> TRUE, raised |-> FALSE]
    ELSE [crash |-> c1, stored |-> TRUE, raised |-> FALSE]

\* a _do_operation in which a MakeNote hands the crash to Evaluate as well
DoOperationBodyNoteAdvances(crash, operation) ==
    LET c1 == [crash EXCEPT !.history = Append(@, operation)] IN
    IF operation.type = "RequestCode"
    THEN [crash |-> c1, stored |-> FALSE, raised |-> TRUE]
    ELSE IF operation.type = "ProposedPatch"
    THEN [crash |-> [c1 EXCEPT !.stage = "repair"], stored |-> TRUE, raised |-> FALSE]
    ELSE [crash |-> [c1 EXCEPT !.note = Append(@, operation.content), !.stage = "repair"],
          stored |-> TRUE, raised |-> FALSE]

\* RepairTask._do_operation up to its first raise or its end:
\* [crash: the object afterwards, stored: update_crash was reached,
\*  raised: an exception left _do_operation]
DoOperationBody(crash, operation) ==
    LET c1 == [crash EXCEPT !.history = Append(@, operation)] IN
    IF operation.type = "RequestCode"
    THEN \* RequestCode has no attribute line: with the file already requested
         \* the test of lines 184-186 reads operation.line and raises; otherwise the
         \* call of line 193 raises inside the try, and the handler of lines
         \* 205-208 reads operation.line for its log message and raises again
         [crash |-> c1, stored |-> FALSE, raised |-> TRUE]
    ELSE IF operation.type = "ProposedPatch"
    THEN [crash |-> [c1 EXCEPT !.stage = "repair"], stored |-> TRUE, raised |-> FALSE]
    ELSE IF operation.type = "MakeNote"
    THEN [crash |-> [c1 EXCEPT !.note = Append(@, operation.content)],
          stored |-> TRUE, raised |-> FALSE]
    ELSE [crash |-> c1, stored |-> FALSE, raised |-> TRUE]

\* the last statement of _do_operation
IncrementRetry(crash) == [crash EXCEPT !.retry_count = @ + 1]

\* RepairTask._do_operation on the repository: the object is changed in
\* place, written back, and its retry_count is incremented afterwards
DoOperation(cs, id, operation) ==
    LET r == DoOperationBody(Deref(cs, id), operation) IN
    IF r.stored
    THEN Assign(update_crash(Assign(cs, r.crash), r.crash), IncrementRetry(r.crash))
    ELSE Assign(cs, r.crash)

\* a handling of the finished request that gives the crash up when the
\* agent call failed
RepairCompleteAbandoning(cs, id, result) ==
    IF result.type = "Exception"
    THEN Assign(cs, [Deref(cs, id) EXCEPT !.retry_count = TIMES_THRESHOLD])
    ELSE DoOperation(cs, id, result)

\* RepairTask.run, lines 117-128: the finished request is handled; an
\* exception of result() or of _do_operation is caught and logged
RepairComplete(cs, id, result) ==
    IF result.type = "Exception" THEN cs ELSE DoOperation(cs, id, result)

\* RepairTask.run, with what the future delivers: done is the answer of
\* done(), result the outcome of result()
RepairRunWith(done, result) ==
    /\ phase = "run"
    /\ Tasks[task_idx] = "repair"
    /\ LET found == get_crashes(crashes, { c \in Records(crashes) : RepairFilter(c) })
           submit == found # <<>> /\ ~output_handle.alive
           c0 == IF submit THEN found[1].id ELSE fixing_crash
           i0 == IF submit THEN "open" ELSE instance
       IN
       /\ last_repairing' = IF submit THEN found[1].id ELSE last_repairing
       /\ IF submit /\ found[1].report = None
          THEN \* self._fixing_crash.report.decode: None has no decode
               /\ fixing_crash' = c0
               /\ instance' = i0
               /\ UNCHANGED <<crashes, output_handle, agent_quota>>
               /\ Raised("AttributeError")
          ELSE LET h0 == IF submit THEN NewFuture ELSE output_handle IN
               IF h0.alive /\ done
               THEN /\ result \in AgentResults(agent_quota)
                    /\ crashes' = RepairComplete(crashes, c0, result)
                    /\ agent_quota' = IF result = Failure THEN agent_quota
                                      ELSE agent_quota - 1
                    /\ output_handle' = NoFuture
                    /\ fixing_crash' = NoCrash
                    /\ instance' = "none"
                    /\ Returned
               ELSE /\ output_handle' = h0
                    /\ fixing_crash' = c0
                    /\ instance' = i0
                    /\ UNCHANGED <<crashes, agent_quota>>
                    /\ Returned
    /\ UNCHANGED <<out_dir, fuzz_handle, is_resuming, seen_crashes, replay_handle,
                   replaying_crash, docker_instance, sandbox_files, build_handle,
                   evaluate_handle, evaluating_crash, patches_dir>>

\* RepairTask.run
RepairRun ==
    \E done \in BOOLEAN : \E result \in Operations \cup {Failure} :
        RepairRunWith(done, result)

----------------------------------------------------------------------------
(* EvaluateTask (backend/evaluate/task.py) *)

\* str.splitlines(keepends=True): the lines of a text, each with its
\* terminator; cur is the line being read
RECURSIVE SplitFrom(_, _)
SplitFrom(text, cur) ==
    IF text = <<>> THEN (IF cur = <<>> THEN <<>> ELSE <<cur>>)
    ELSE IF Head(text) = NL
         THEN <<Append(cur, NL)>> \o SplitFrom(Tail(text), <<>>)
         ELSE SplitFrom(Tail(text), Append(cur, Head(text)))

SplitLines(text) == SplitFrom(text, <<>>)

\* "".join(lines)
RECURSIVE Concat(_)
Concat(lines) == IF lines = <<>> THEN <<>> ELSE Head(lines) \o Concat(Tail(lines))

\* "\n".join(content)
RECURSIVE JoinNL(_)
JoinNL(content) ==
    IF content = <<>> THEN <<>>
    ELSE IF Len(content) = 1 THEN Head(content)
    ELSE Head(content) \o <<NL>> \o JoinNL(Tail(content))

\* a loop over patch.diff that writes the content without the trailing newline
RECURSIVE ApplyDiffUnterminated(_, _, _)
ApplyDiffUnterminated(diff, lines, processed_lines) ==
    IF diff = <<>> THEN [ok |-> TRUE, lines |-> lines]
    ELSE LET modified_line == Head(diff)
             line_number == modified_line.line_number - 1
         IN IF 0 <= line_number /\ line_number < Len(lines)
               /\ line_number \notin processed_lines
            THEN ApplyDiffUnterminated(Tail(diff),
                           [lines EXCEPT ![line_number + 1] =
                                JoinNL(modified_line.content)],
                           processed_lines \cup {line_number})
            ELSE [ok |-> FALSE, lines |-> lines]

\* a loop over patch.diff that does not remember the lines it has modified
RECURSIVE ApplyDiffRepeating(_, _, _)
ApplyDiffRepeating(diff, lines, processed_lines) ==
    IF diff = <<>> THEN [ok |-> TRUE, lines |-> lines]
    ELSE LET modified_line == Head(diff)
             line_number == modified_line.line_number - 1
         IN IF 0 <= line_number /\ line_number < Len(lines)
            THEN ApplyDiffRepeating(Tail(diff),
                           [lines EXCEPT ![line_number + 1] =
                                JoinNL(modified_line.content) \o <<NL>>],
                           processed_lines)
            ELSE [ok |-> FALSE, lines |-> lines]

\* a loop over patch.diff that splits the text anew after every replacement,
\* so that inserted lines shift the lines behind them
RECURSIVE ApplyDiffShifting(_, _, _)
ApplyDiffShifting(diff, lines, processed_lines) ==
    IF diff = <<>> THEN [ok |-> TRUE, lines |-> lines]
    ELSE LET modified_line == Head(diff)
             line_number == modified_line.line_number - 1
         IN IF 0 <= line_number /\ line_number < Len(lines)
               /\ line_number \notin processed_lines
            THEN ApplyDiffShifting(Tail(diff),
                           SplitLines(Concat([lines EXCEPT ![line_number + 1] =
                                JoinNL(modified_line.content) \o <<NL>>])),
                           processed_lines \cup {line_number})
            ELSE [ok |-> FALSE, lines |-> lines]

\* the loop over patch.diff of _patch_application: [ok, lines]
RECURSIVE ApplyDiff(_, _, _)
ApplyDiff(diff, lines, processed_lines) ==
    IF diff = <<>> THEN [ok |-> TRUE, lines |-> lines]
    ELSE LET modified_line == Head(diff)
             line_number == modified_line.line_number - 1
         IN IF 0 <= line_number /\ line_number < Len(lines)
               /\ line_number \notin processed_lines
            THEN ApplyDiff(Tail(diff),
                           [lines EXCEPT ![line_number + 1] =
                                JoinNL(modified_line.content) \o <<NL>>],
                           processed_lines \cup {line_number})
            ELSE [ok |-> FALSE, lines |-> lines]

\* EvaluateTask._patch_application: the loop over the patches, on the files
\* of the sandbox; result is "True", "False" or "raise" (the read of a file
\* that is not in the sandbox)
RECURSIVE PatchApplication(_, _)
PatchApplication(patches, files) ==
    IF patches = <<>> THEN [result |-> "True", files |-> files]
    ELSE LET patch == Head(patches) IN
         IF patch.file \notin DOMAIN files
         THEN [result |-> "raise", files |-> files]
         ELSE LET r == ApplyDiff(patch.diff, SplitLines(files[patch.file]), {}) IN
              IF ~r.ok THEN [result |-> "False", files |-> files]
              ELSE PatchApplication(Tail(patches),
                                    [files EXCEPT ![patch.file] = Concat(r.lines)])

\* a filter that also takes the crashes Evaluate has finished
EvaluateFilterWithEvaluate(c) == c.stage \in {"repair", "evaluate"}

\* the filter of EvaluateTask.run
EvaluateFilter(c) == c.stage = "repair"

\* history[-1].patches
LastPatches(crash) == crash.history[Len(crash.history)].patches

\* the state of EvaluateTask and what it writes
EvaluateState ==
    [crashes |-> crashes, docker_instance |-> docker_instance,
     sandbox_files |-> sandbox_files, build_handle |-> build_handle,
     evaluate_handle |-> evaluate_handle, evaluating_crash |-> evaluating_crash,
     patches_dir |-> patches_dir, returned |-> FALSE, raised |-> "none"]

\* the revert with the crash sent back to stage fuzz
EvaluateRevertToFuzz(st) ==
    LET crash == [Deref(st.crashes, st.evaluating_crash) EXCEPT !.stage = "fuzz"] IN
    [st EXCEPT !.crashes = update_crash(Assign(st.crashes, crash), crash),
               !.docker_instance = "none",
               !.sandbox_files = SourceTree,
               !.evaluating_crash = NoCrash,
               !.returned = TRUE]

\* a revert that forgets to close the sandbox
EvaluateRevertOpen(st) ==
    LET crash == [Deref(st.crashes, st.evaluating_crash) EXCEPT !.stage = "replay"] IN
    [st EXCEPT !.crashes = update_crash(Assign(st.crashes, crash), crash),
               !.evaluating_crash = NoCrash,
               !.returned = TRUE]

\* the crash goes back to Repair, the sandbox is closed (lines 61-66, 93-98)
EvaluateRevert(st) ==
    LET crash == [Deref(st.crashes, st.evaluating_crash) EXCEPT !.stage = "replay"] IN
    [st EXCEPT !.crashes = update_crash(Assign(st.crashes, crash), crash),
               !.docker_instance = "none",
               !.sandbox_files = SourceTree,
               !.evaluating_crash = NoCrash,
               !.returned = TRUE]

\* EvaluateTask.run, lines 46-84: take a crash, apply its patches, start the build
EvaluateTake(st) ==
    LET found == get_crashes(st.crashes, { c \in Records(st.crashes) : EvaluateFilter(c) }) IN
    IF found # <<>> /\ st.docker_instance = "none"
    THEN LET r == PatchApplication(LastPatches(found[1]), SourceTree)
             taken == [st EXCEPT !.evaluating_crash = found[1].id,
                                 !.docker_instance = "open",
                                 !.sandbox_files = r.files]
         IN IF r.result = "raise" THEN [taken EXCEPT !.raised = "NotFound"]
            ELSE IF r.result = "False" THEN EvaluateRevert(taken)
            ELSE [taken EXCEPT !.build_handle = NewHandle]
    ELSE st

\* a handling of the ended build that starts the re-run without dropping the
\* build handle
EvaluateBuiltKeeping(st, inspection) ==
    LET h == IF st.build_handle.alive THEN FetchResults(st.build_handle, inspection)
             ELSE st.build_handle
    IN IF h.alive /\ ~h.running
       THEN IF h.exit_code[1] # 0
            THEN EvaluateRevert([st EXCEPT !.build_handle = NoHandle])
            ELSE [st EXCEPT !.build_handle = h, !.evaluate_handle = NewHandle]
       ELSE st

\* EvaluateTask.run, lines 86-114: the build has ended
EvaluateBuilt(st, inspection) ==
    LET h == IF st.build_handle.alive THEN FetchResults(st.build_handle, inspection)
             ELSE st.build_handle
    IN IF h.alive /\ ~h.running
       THEN IF h.exit_code[1] # 0
            THEN EvaluateRevert([st EXCEPT !.build_handle = NoHandle])
            ELSE [st EXCEPT !.build_handle = NoHandle, !.evaluate_handle = NewHandle]
       ELSE st

\* a handling of the ended re-run that marks the crash fixed without
\* recording its patches
EvaluateRanUnrecorded(st, inspection) ==
    LET h == IF st.evaluate_handle.alive THEN FetchResults(st.evaluate_handle, inspection)
             ELSE st.evaluate_handle
    IN IF h.alive /\ ~h.running
       THEN LET old == Deref(st.crashes, st.evaluating_crash)
                fixed == h.exit_code[1] = 0
                crash == IF fixed THEN [old EXCEPT !.stage = "evaluate"]
                         ELSE [old EXCEPT !.stage = "replay"]
            IN [st EXCEPT !.crashes = update_crash(Assign(st.crashes, crash), crash),
                          !.evaluate_handle = NoHandle,
                          !.docker_instance = "none",
                          !.sandbox_files = SourceTree,
                          !.evaluating_crash = NoCrash]
       ELSE st

\* EvaluateTask.run, lines 116-141: the re-run has ended
EvaluateRan(st, inspection) ==
    LET h == IF st.evaluate_handle.alive THEN FetchResults(st.evaluate_handle, inspection)
             ELSE st.evaluate_handle
    IN IF h.alive /\ ~h.running
       THEN LET old == Deref(st.crashes, st.evaluating_crash)
                fixed == h.exit_code[1] = 0
                crash == IF fixed
                         THEN [old EXCEPT !.valid_patches = Some(LastPatches(old)),
                                          !.stage = "evaluate"]
                         ELSE [old EXCEPT !.stage = "replay"]
            IN [st EXCEPT !.crashes = update_crash(Assign(st.crashes, crash), crash),
                          !.patches_dir = IF fixed THEN @ \cup {crash.id} ELSE @,
                          !.evaluate_handle = NoHandle,
                          !.docker_instance = "none",
                          !.sandbox_files = SourceTree,
                          !.evaluating_crash = NoCrash]
       ELSE st

\* what a poll of a build or of a re-run can deliver
EvaluateInspections ==
    { [Running |-> TRUE, ExitCode |-> 0, Output |-> <<>>] } \cup
    { [Running |-> FALSE, ExitCode |-> e, Output |-> <<>>] : e \in ExitCodes }

\* a part of EvaluateTask.run is skipped after a return or a raise of an
\* earlier part
EvaluateLeft(st) == st.returned \/ st.raised # "none"

\* the state of EvaluateTask.run before its third part, after the poll of
\* the build
EvaluateReached(build_inspection) ==
    LET s1 == EvaluateTake(EvaluateState) IN
    IF EvaluateLeft(s1) THEN s1 ELSE EvaluateBuilt(s1, build_inspection)

\* EvaluateTask.run: its three parts in a row, with what the poll of the
\* build and the poll of the re-run can deliver
EvaluateRunWith(build_inspections, run_inspections) ==
    /\ phase = "run"
    /\ Tasks[task_idx] = "evaluate"
    /\ \E s1 \in { EvaluateTake(EvaluateState) } :
       \E build_inspection \in Polls(s1.build_handle, build_inspections) :
       \E s2 \in { IF EvaluateLeft(s1) THEN s1
                    ELSE EvaluateBuilt(s1, build_inspection) } :
       \E run_inspection \in Polls(s2.evaluate_handle, run_inspections) :
       \E st \in { IF EvaluateLeft(s2) THEN s2
                    ELSE EvaluateRan(s2, run_inspection) } :
           /\ crashes' = st.crashes
           /\ docker_instance' = st.docker_instance
           /\ sandbox_files' = st.sandbox_files
           /\ build_handle' = st.build_handle
           /\ evaluate_handle' = st.evaluate_handle
           /\ evaluating_crash' = st.evaluating_crash
           /\ patches_dir' = st.patches_dir
           /\ IF st.raised # "none" THEN Raised(st.raised) ELSE Returned
    /\ UNCHANGED <<out_dir, fuzz_handle, is_resuming, seen_crashes, replay_handle,
                   replaying_crash, output_handle, fixing_crash, last_repairing, instance,
                   agent_quota>>

\* EvaluateTask.run
EvaluateRun == EvaluateRunWith(EvaluateInspections, EvaluateInspections)

----------------------------------------------------------------------------
(* Sandbox teardown (docker/instance.py) *)

\* Instance.close on a container that is "open" (running) or "closed"
\* (stopped and removed by an earlier close): self._container still holds
\* the Container object and its id after a close, so the tests of lines
\* 100-107 pass again and line 110 asks the runtime to stop a container that
\* no longer exists, which the Docker client answers with NotFound
InstanceClose(container) ==
    IF container = "open"
    THEN [container |-> "closed", raised |-> FALSE]
    ELSE [container |-> container, raised |-> TRUE]

\* `if self._docker_instance: self._docker_instance.close()` of a task's
\* close(): a reference that is None ("none") is skipped
CloseIfSet(container) ==
    IF container = "none"
    THEN [container |-> container, raised |-> FALSE]
    ELSE InstanceClose(container)

----------------------------------------------------------------------------
(* Manager: __enter__, the while condition of run, close *)

\* how a task's initialize() can end: "ok", "no sandbox" (Instance(...)
\* raises), "build failed" (_build_target raises RuntimeError), "raise"
\* (RepairTask.initialize: the prompt file or the agent cannot be set up)
InitializeOutcomes(task) ==
    IF task \in {"fuzz", "replay"} THEN {"ok", "no sandbox", "build failed"}
    ELSE IF task = "repair" THEN {"ok", "raise"}
    ELSE {"ok"}

\* a __enter__ that logs a failed initialize() and goes on
ManagerInitializeLenient(outcome) ==
    /\ phase = "enter"
    /\ outcome \in InitializeOutcomes(Tasks[task_idx])
    /\ fuzz_instance' = IF Tasks[task_idx] = "fuzz" /\ outcome # "no sandbox"
                        THEN "open" ELSE fuzz_instance
    /\ replay_instance' = IF Tasks[task_idx] = "replay" /\ outcome # "no sandbox"
                          THEN "open" ELSE replay_instance
    /\ initialized' = IF outcome = "ok" THEN Append(initialized, Tasks[task_idx])
                      ELSE initialized
    /\ task_idx' = NextTask(task_idx)
    /\ phase' = IF task_idx = Len(Tasks) THEN "check" ELSE phase
    /\ UNCHANGED <<crashes, raised, out_dir, fuzz_handle, is_resuming, seen_crashes,
                   replay_handle, replaying_crash, output_handle, fixing_crash, last_repairing,
                   instance, agent_quota, docker_instance, sandbox_files,
                   build_handle, evaluate_handle, evaluating_crash, patches_dir,
                   expired, closed, reads>>

\* Manager.__enter__: one pass of `for task in self._tasks: task.initialize()`.
\* An exception of initialize() leaves __enter__ and the with statement of
\* main.py, whose __exit__ is then not called; after the last task the with
\* body calls Manager.run, which is at its while condition
ManagerInitialize(outcome) ==
    /\ phase = "enter"
    /\ outcome \in InitializeOutcomes(Tasks[task_idx])
    /\ fuzz_instance' = IF Tasks[task_idx] = "fuzz" /\ outcome # "no sandbox"
                        THEN "open" ELSE fuzz_instance
    /\ replay_instance' = IF Tasks[task_idx] = "replay" /\ outcome # "no sandbox"
                          THEN "open" ELSE replay_instance
    /\ IF outcome = "ok"
       THEN /\ initialized' = Append(initialized, Tasks[task_idx])
            /\ task_idx' = NextTask(task_idx)
            /\ phase' = IF task_idx = Len(Tasks) THEN "check" ELSE phase
            /\ UNCHANGED raised
       ELSE /\ phase' = "failed"
            /\ raised' = IF outcome = "build failed" THEN "RuntimeError" ELSE "Exception"
            /\ UNCHANGED <<initialized, task_idx>>
    /\ UNCHANGED <<crashes, out_dir, fuzz_handle, is_resuming, seen_crashes,
                   replay_handle, replaying_crash, output_handle, fixing_crash, last_repairing,
                   instance, agent_quota, docker_instance, sandbox_files,
                   build_handle, evaluate_handle, evaluating_crash, patches_dir,
                   expired, closed, reads>>

\* the clock reaches the deadline: timeout_seconds - (time.time() -
\* self._start_time) is no longer positive. Only the while condition of
\* Manager.run reads the clock, so a deadline that passes during
\* initialization, a run() call or the sleep shows where the condition is
\* evaluated next, and the step is taken there.
TimePasses ==
    /\ phase = "check"
    /\ ~expired
    /\ expired' = TRUE
    /\ UNCHANGED <<crashes, phase, raised, task_idx, out_dir, fuzz_handle,
                   is_resuming, seen_crashes, replay_handle, replaying_crash,
                   output_handle, fixing_crash, last_repairing, instance, agent_quota,
                   docker_instance, sandbox_files, build_handle, evaluate_handle,
                   evaluating_crash, patches_dir, initialized, closed,
                   fuzz_instance, replay_instance, reads>>

\* Manager.run: the while condition holds (left_time > 0), an iteration begins
ManagerIterate ==
    /\ phase = "check"
    /\ ~expired
    /\ phase' = "run"
    /\ UNCHANGED <<crashes, raised, task_idx, out_dir, fuzz_handle, is_resuming,
                   seen_crashes, replay_handle, replaying_crash, output_handle,
                   fixing_crash, last_repairing, instance, agent_quota, docker_instance,
                   sandbox_files, build_handle, evaluate_handle, evaluating_crash,
                   patches_dir, outside_run>>

\* Manager.run: the while condition fails, the loop is left
ManagerDeadline ==
    /\ phase = "check"
    /\ expired
    /\ phase' = "exit"
    /\ UNCHANGED <<crashes, raised, task_idx, out_dir, fuzz_handle, is_resuming,
                   seen_crashes, replay_handle, replaying_crash, output_handle,
                   fixing_crash, last_repairing, instance, agent_quota, docker_instance,
                   sandbox_files, build_handle, evaluate_handle, evaluating_crash,
                   patches_dir, outside_run>>

\* task.close() on the sandboxes of the tasks: FuzzTask, ReplayTask and
\* EvaluateTask close their sandbox and keep the reference, RepairTask stops
\* its worker, closes its sandbox and drops the reference
TaskClose(task, st) ==
    LET r == CloseIfSet(CASE task = "fuzz" -> st.fuzz_instance
                          [] task = "replay" -> st.replay_instance
                          [] task = "repair" -> st.instance
                          [] task = "evaluate" -> st.docker_instance)
    IN [st EXCEPT !.closed = Append(@, task),
                  !.fuzz_instance = IF task = "fuzz" THEN r.container ELSE @,
                  !.replay_instance = IF task = "replay" THEN r.container ELSE @,
                  !.instance = IF task = "repair" /\ ~r.raised THEN "none" ELSE @,
                  !.docker_instance = IF task = "evaluate" THEN r.container ELSE @,
                  !.raised = IF r.raised THEN "NotFound" ELSE @]

\* a Manager.close that stops after the first task
CloseTasksFirstOnly(tasks, st) ==
    IF tasks = <<>> THEN st ELSE TaskClose(Head(tasks), st)

\* Manager.close: `for task in self._tasks: task.close()`; an exception of
\* a close() leaves the loop
RECURSIVE CloseTasks(_, _)
CloseTasks(tasks, st) ==
    IF tasks = <<>> THEN st
    ELSE LET s1 == TaskClose(Head(tasks), st) IN
         IF s1.raised # st.raised THEN s1 ELSE CloseTasks(Tail(tasks), s1)

\* Manager.__exit__, called when the with body of main.py is left by the
\* return of Manager.run or by an exception: Manager.close
ManagerClose ==
    /\ phase = "exit"
    /\ \E st \in { CloseTasks(Tasks, [closed |-> closed, fuzz_instance |-> fuzz_instance,
                                      replay_instance |-> replay_instance,
                                      instance |-> instance,
                                      docker_instance |-> docker_instance,
                                      raised |-> raised]) } :
          /\ closed' = st.closed
          /\ fuzz_instance' = st.fuzz_instance
          /\ replay_instance' = st.replay_instance
          /\ instance' = st.instance
          /\ docker_instance' = st.docker_instance
          /\ raised' = st.raised
    /\ phase' = "closed"
    /\ UNCHANGED <<crashes, task_idx, out_dir, fuzz_handle, is_resuming,
                   seen_crashes, replay_handle, replaying_crash, output_handle,
                   fixing_crash, last_repairing, agent_quota, sandbox_files, build_handle,
                   evaluate_handle, evaluating_crash, patches_dir, expired,
                   initialized, reads>>

----------------------------------------------------------------------------
(* The system *)

\* the state after Manager.__init__
Init ==
    /\ crashes = <<>>
    /\ phase = "enter"
    /\ raised = "none"
    /\ task_idx = 1
    /\ out_dir = None
    /\ fuzz_handle = NoHandle
    /\ is_resuming = FALSE
    /\ seen_crashes = {}
    /\ replay_handle = NoHandle
    /\ replaying_crash = NoCrash
    /\ output_handle = NoFuture
    /\ fixing_crash = NoCrash
    /\ last_repairing = NoCrash
    /\ instance = "none"
    /\ agent_quota = MaxReplies
    /\ docker_instance = "none"
    /\ sandbox_files = SourceTree
    /\ build_handle = NoHandle
    /\ evaluate_handle = NoHandle
    /\ evaluating_crash = NoCrash
    /\ patches_dir = {}
    /\ expired = FALSE
    /\ initialized = <<>>
    /\ closed = <<>>
    /\ fuzz_instance = "none"
    /\ replay_instance = "none"
    /\ reads = <<>>

\* the steps of Manager.run and Manager.close
NextStarted ==
    \/ TimePasses
    \/ ManagerIterate
    \/ FuzzRun
    \/ ReplayRun
    \/ RepairRun
    \/ EvaluateRun
    \/ ManagerDeadline
    \/ ManagerClose

Next ==
    \/ \E outcome \in {"ok", "no sandbox", "build failed", "raise"} :
          ManagerInitialize(outcome)
    \/ NextStarted

Spec == Init /\ [][Next]_vars

\* the program goes on as long as it has a step to take: main.py runs
\* __enter__, run and __exit__ to their end
SpecStartup == Init /\ [][Next]_vars /\ WF_vars(Next)

----------------------------------------------------------------------------
(* The run from a later state: the pipeline has found and replayed two     *)
(* crashes, both reproducible, and the agent has answered MakeNote on the  *)
(* first one until it is MaxReplies rounds short of TIMES_THRESHOLD.       *)

\* n MakeNote rounds of RepairTask on a crash
RECURSIVE AfterNotes(_, _)
AfterNotes(crash, n) ==
    IF n = 0 THEN crash
    ELSE AfterNotes(IncrementRetry(DoOperationBody(crash, [type |-> "MakeNote", content |-> "n"]).crash),
                    n - 1)

\* a crash of FuzzTask after a reproducing replay
Replayed(id, name) ==
    ReplayClassify(NewCrash(id, "fuzz", ArtifactData(name)), 1,
                   Decode(<<"==1==", BannerASan, ": heap-buffer-overflow">>))

InitNearThreshold ==
    /\ crashes = << AfterNotes(Replayed(1, <<"id:", 1>>), TIMES_THRESHOLD - MaxReplies),
                    NewCrash(2, "fuzz", ArtifactData(<<"id:", 2>>)) >>
    /\ phase = "run"
    /\ raised = "none"
    /\ task_idx = 1
    /\ out_dir = Some(DirWith(2))
    /\ fuzz_handle = NewHandle
    /\ is_resuming = TRUE
    /\ seen_crashes = { <<"id:", 1>>, <<"id:", 2>> }
    /\ replay_handle = NoHandle
    /\ replaying_crash = NoCrash
    /\ output_handle = NoFuture
    /\ fixing_crash = NoCrash
    /\ last_repairing = 1
    /\ instance = "none"
    /\ agent_quota = MaxReplies
    /\ docker_instance = "none"
    /\ sandbox_files = SourceTree
    /\ build_handle = NoHandle
    /\ evaluate_handle = NoHandle
    /\ evaluating_crash = NoCrash
    /\ patches_dir = {}
    /\ expired = FALSE
    /\ initialized = Tasks
    /\ closed = <<>>
    /\ fuzz_instance = "open"
    /\ replay_instance = "open"
    /\ reads = <<>>

\* RepairTask.run ends with no request in flight: a request that was in
\* flight, or was submitted in this call, has completed
RepairCompletes == RepairRun /\ ~output_handle'.alive

\* The scheduler keeps ticking (Manager.run evaluates its while condition and
\* calls every task in turn) and every agent request eventually completes.
Ticking ==
    /\ WF_vars(ManagerIterate)
    /\ WF_vars(ManagerDeadline)
    /\ WF_vars(FuzzRun)
    /\ WF_vars(ReplayRun)
    /\ WF_vars(RepairRun)
    /\ WF_vars(EvaluateRun)
    /\ WF_vars(ManagerClose)
    /\ SF_vars(RepairCompletes)

SpecNearThreshold == InitNearThreshold /\ [][NextStarted]_vars /\ Ticking

----------------------------------------------------------------------------
(* The repository under arbitrary calls of add_crash and update_crash *)

\* ids the callers use
MaxIds == 3

\* the records the callers pass
CrashValues ==
    { [NewCrash(id, stage, <<>>) EXCEPT !.retry_count = n] :
        id \in 1..MaxIds, stage \in {"fuzz", "replay"}, n \in 0..1 }

CallAddCrash ==
    /\ \E crash \in CrashValues : crashes' = add_crash(crashes, crash)
    /\ UNCHANGED <<phase, raised, task_idx, out_dir, fuzz_handle, is_resuming,
                   seen_crashes, replay_handle, replaying_crash, output_handle,
                   fixing_crash, last_repairing, instance, agent_quota, docker_instance,
                   sandbox_files, build_handle, evaluate_handle, evaluating_crash,
                   patches_dir, outside_run>>

CallUpdateCrash ==
    /\ \E crash \in CrashValues : crashes' = update_crash(crashes, crash)
    /\ UNCHANGED <<phase, raised, task_idx, out_dir, fuzz_handle, is_resuming,
                   seen_crashes, replay_handle, replaying_crash, output_handle,
                   fixing_crash, last_repairing, instance, agent_quota, docker_instance,
                   sandbox_files, build_handle, evaluate_handle, evaluating_crash,
                   patches_dir, outside_run>>

RepoNext ==
    \/ CallAddCrash
    \/ CallUpdateCrash

RepoSpec == Init /\ [][RepoNext]_vars

----------------------------------------------------------------------------
(* _patch_application on an open sandbox, for arbitrary files and patch sets *)

\* tokens in the text of the patched file
MaxText == 3

\* the texts the patched file can have
Texts == UNION { [1..n -> {"a", NL}] : n \in 0..MaxText }

\* the sandbox holds the patched file and a second file
SandboxWith(text) == ("/src/a.c" :> text) @@ ("/src/b.c" :> <<"b", NL>>)

\* the ModifiedLine values of the patches
ModifiedLines ==
    { [line_number |-> k, content |-> << <<"X">> >>] : k \in 0..(MaxText + 1) }
        \cup { [line_number |-> 1, content |-> << <<"X">>, <<"Y">> >>] }

\* the sequences over a set of at most two elements
UpToTwo(S) == { <<>> } \cup { <<x>> : x \in S } \cup { <<x, y>> : x \in S, y \in S }

\* the files the patches name: two of the sandbox and one that is not there
PatchedFiles == {"/src/a.c", "/src/b.c", "/src/none.c"}

\* the Patch values, and those with at most one ModifiedLine
Patches ==
    { [file |-> f, diff |-> d] : f \in PatchedFiles, d \in UpToTwo(ModifiedLines) }
ShortPatches == { patch \in Patches : Len(patch.diff) <= 1 }

\* the patch sets (history[-1].patches): one Patch, or two short ones
PatchInputs ==
    { <<>> } \cup { <<patch>> : patch \in Patches }
        \cup { <<p, q>> : p \in ShortPatches, q \in ShortPatches }

\* EvaluateTask.run has created its sandbox (lines 50-53)
PatchInit ==
    /\ crashes = <<>>
    /\ phase = "run"
    /\ raised = "none"
    /\ task_idx = 4
    /\ out_dir = None
    /\ fuzz_handle = NoHandle
    /\ is_resuming = FALSE
    /\ seen_crashes = {}
    /\ replay_handle = NoHandle
    /\ replaying_crash = NoCrash
    /\ output_handle = NoFuture
    /\ fixing_crash = NoCrash
    /\ last_repairing = NoCrash
    /\ instance = "none"
    /\ agent_quota = MaxReplies
    /\ docker_instance = "open"
    /\ sandbox_files \in { SandboxWith(text) : text \in Texts }
    /\ build_handle = NoHandle
    /\ evaluate_handle = NoHandle
    /\ evaluating_crash = NoCrash
    /\ patches_dir = {}
    /\ expired = FALSE
    /\ initialized = Tasks
    /\ closed = <<>>
    /\ fuzz_instance = "open"
    /\ replay_instance = "open"
    /\ reads = <<>>

\* _patch_application on the open sandbox and what run() does with its
\* result (lines 56-66, 81-85): True starts the build, False closes the
\* sandbox, an exception leaves run(). sandbox_files keeps the files as the
\* call left them.
CallPatchApplication(patches) ==
    /\ phase = "run"
    /\ docker_instance = "open"
    /\ ~build_handle.alive
    /\ LET r == PatchApplication(patches, sandbox_files) IN
       /\ sandbox_files' = r.files
       /\ build_handle' = IF r.result = "True" THEN NewHandle ELSE build_handle
       /\ docker_instance' = IF r.result = "False" THEN "none" ELSE docker_instance
       /\ IF r.result = "raise" THEN Raised("NotFound") ELSE Returned
    /\ UNCHANGED <<crashes, out_dir, fuzz_handle, is_resuming, seen_crashes,
                   replay_handle, replaying_crash, output_handle, fixing_crash, last_repairing,
                   instance, agent_quota, evaluate_handle, evaluating_crash,
                   patches_dir>>

PatchNext == \E patches \in PatchInputs : CallPatchApplication(patches)

PatchSpec == PatchInit /\ [][PatchNext]_vars

----------------------------------------------------------------------------
(* An ExecHandle under arbitrary reads of its properties *)

\* reads of the handle's properties the caller makes
MaxReads == 3

\* Instance.execute has returned a handle (ExecHandle.__init__)
HandleInit ==
    /\ crashes = <<>>
    /\ phase = "run"
    /\ raised = "none"
    /\ task_idx = 2
    /\ out_dir = None
    /\ fuzz_handle = NoHandle
    /\ is_resuming = FALSE
    /\ seen_crashes = {}
    /\ replay_handle = NewHandle
    /\ replaying_crash = NoCrash
    /\ output_handle = NoFuture
    /\ fixing_crash = NoCrash
    /\ last_repairing = NoCrash
    /\ instance = "none"
    /\ agent_quota = MaxReplies
    /\ docker_instance = "none"
    /\ sandbox_files = SourceTree
    /\ build_handle = NoHandle
    /\ evaluate_handle = NoHandle
    /\ evaluating_crash = NoCrash
    /\ patches_dir = {}
    /\ expired = FALSE
    /\ initialized = Tasks
    /\ closed = <<>>
    /\ fuzz_instance = "open"
    /\ replay_instance = "open"
    /\ reads = <<>>

\* the properties running, exit_code and output: each calls _fetch_results
\* and returns the cached field; inspection is what exec_inspect and the
\* stream would deliver if they were asked
ReadHandle(property, inspection) ==
    /\ Len(reads) < MaxReads
    /\ replay_handle' = FetchResults(replay_handle, inspection)
    /\ reads' = Append(reads, [property |-> property,
                               value |-> IF property = "running"
                                         THEN Some(replay_handle'.running)
                                         ELSE IF property = "exit_code"
                                         THEN replay_handle'.exit_code
                                         ELSE replay_handle'.output])
    /\ UNCHANGED <<crashes, phase, raised, task_idx, out_dir, fuzz_handle,
                   is_resuming, seen_crashes, replaying_crash, output_handle,
                   fixing_crash, last_repairing, instance, agent_quota, docker_instance,
                   sandbox_files, build_handle, evaluate_handle, evaluating_crash,
                   patches_dir, expired, initialized, closed, fuzz_instance,
                   replay_instance>>

HandleNext ==
    \E property \in {"running", "exit_code", "output"} :
        \E inspection \in Inspections : ReadHandle(property, inspection)

HandleSpec == HandleInit /\ [][HandleNext]_vars

----------------------------------------------------------------------------
(* A sandbox under arbitrary calls of close, while files are patched *)

\* Instance.close: a client that does not answer the ping is logged and the
\* call returns; otherwise the container is stopped and removed, and a
\* container that is gone makes stop() raise (the Container object and its
\* id outlive the removal, so the "No container to close" test passes)
CallClose ==
    /\ docker_instance # "none"
    /\ \E ping \in BOOLEAN :
          LET r == InstanceClose(docker_instance) IN
          /\ docker_instance' = IF ping THEN r.container ELSE docker_instance
          /\ raised' = IF ping /\ r.raised THEN "NotFound" ELSE raised
    /\ UNCHANGED <<crashes, phase, task_idx, out_dir, fuzz_handle, is_resuming,
                   seen_crashes, replay_handle, replaying_crash, output_handle,
                   fixing_crash, last_repairing, instance, agent_quota, sandbox_files,
                   build_handle, evaluate_handle, evaluating_crash, patches_dir,
                   outside_run>>

SandboxNext == PatchNext \/ CallClose

SandboxSpec == PatchInit /\ [][SandboxNext]_vars

----------------------------------------------------------------------------
(* Properties *)

\* the record at position i before and after a step is the same crash
SameCrash(i) == i \in DOMAIN crashes' /\ crashes'[i].id = crashes[i].id

\* the last action of a crash's history is a ProposedPatch
LastIsPatch(crash) ==
    crash.history # <<>> /\ crash.history[Len(crash.history)].type = "ProposedPatch"

\* the task whose run() the Manager calls in this step
Running(task) == phase = "run" /\ Tasks[task_idx] = task

\* Manager.run has been left
LoopLeft == phase \in {"exit", "closed"}

\* the call of run() made in this step returns to Manager.run
RunReturns == phase' \in {"run", "check"}

\* one of the four moves of the stage field of the record at position i
StageMove(i) ==
    LET from == crashes[i].stage
        to == crashes'[i].stage
    IN \/ from = "fuzz" /\ to = "replay" /\ Running("replay")
       \/ /\ from = "replay" /\ to = "repair" /\ Running("repair")
          /\ LastIsPatch(crashes'[i])
          /\ Len(crashes'[i].history) = Len(crashes[i].history) + 1
       \/ /\ from = "repair" /\ to = "evaluate" /\ Running("evaluate")
          /\ crashes'[i].valid_patches # None
       \/ /\ from = "repair" /\ to = "replay" /\ Running("evaluate")
          /\ crashes'[i].valid_patches = None

\* C1: every change of a crash's stage is one of four moves: fuzz->replay by
\* Replay, replay->repair by Repair on a ProposedPatch, repair->evaluate by
\* Evaluate on success, repair->replay by Evaluate on failure; no crash
\* leaves stage evaluate or goes back to stage fuzz.
C1_StageMoves ==
    [][\A i \in DOMAIN crashes :
          /\ SameCrash(i)
          /\ crashes'[i].stage # crashes[i].stage => StageMove(i)]_vars

\* one crash went through repair->evaluate, another through repair->replay
C1_Witness ==
    \E i, j \in DOMAIN crashes :
        /\ crashes[i].stage = "evaluate"
        /\ crashes[j].stage = "replay" /\ LastIsPatch(crashes[j])

\* the crashes held in flight by Replay, Repair and Evaluate are pairwise distinct
InFlightDistinct ==
    /\ replaying_crash # NoCrash => replaying_crash \notin {fixing_crash, evaluating_crash}
    /\ fixing_crash # NoCrash => fixing_crash # evaluating_crash

\* a record that changes in a step and is held in flight is changed by its holder
ChangedByHolder(i) ==
    /\ crashes[i].id = replaying_crash => Running("replay")
    /\ crashes[i].id = fixing_crash => Running("repair")
    /\ crashes[i].id = evaluating_crash => Running("evaluate")

\* C2: no two stages ever claim the same crash: the crashes held in flight
\* by Replay, Repair and Evaluate are pairwise distinct, and a crash held in
\* flight by one stage is changed by no other stage until it is released.
C2_SingleOwner ==
    /\ []InFlightDistinct
    /\ [][\A i \in DOMAIN crashes :
             (SameCrash(i) /\ crashes'[i] # crashes[i]) => ChangedByHolder(i)]_vars

\* Repair and Evaluate each hold a crash in flight at the same time
C2_Witness == fixing_crash # NoCrash /\ evaluating_crash # NoCrash

\* C3: stage totality: every crash record in the repository has its stage
\* in {fuzz, replay, repair, evaluate}.
C3_StageTotality == \A i \in DOMAIN crashes : crashes[i].stage \in CrashStage

\* the repository holds a crash of every stage but one at once
C3_Witness ==
    \E i, j \in DOMAIN crashes :
        crashes[i].stage = "evaluate" /\ crashes[j].stage = "repair"

\* no two records of the repository have the same id
NoDuplicateIds ==
    \A i, j \in DOMAIN crashes : i # j => crashes[i].id # crashes[j].id

\* C4: dedup: after any sequence of add_crash and update_crash calls the
\* repository holds no two records with the same id, and add_crash with an
\* id already present leaves its contents and order unchanged.
C4_Dedup ==
    /\ NoDuplicateIds
    /\ \A crash \in CrashValues :
          (\E i \in DOMAIN crashes : crashes[i].id = crash.id)
              => add_crash(crashes, crash) = crashes

\* a repository of several records for which a caller holds a record with
\* the id, and other contents, of a stored one
C4_Witness ==
    /\ Len(crashes) >= 2
    /\ \E crash \in CrashValues : \E i \in DOMAIN crashes :
          crashes[i].id = crash.id /\ crashes[i] # crash

\* the crash whose agent request RepairTask.run has in flight, or submits, in
\* a call made in this state
RoundCrash ==
    IF output_handle.alive THEN fixing_crash
    ELSE LET found == get_crashes(crashes, { c \in Records(crashes) : RepairFilter(c) })
         IN IF found # <<>> THEN found[1].id ELSE NoCrash

\* a step of RepairTask.run in which the agent round trip of RoundCrash
\* completes: run() returns and no request is in flight afterwards
RoundTripCompletes ==
    /\ Running("repair")
    /\ RunReturns
    /\ RoundCrash # NoCrash
    /\ ~output_handle'.alive

\* C5: retry_count of a crash increases by exactly 1 for every completed
\* agent round trip on that crash, whether it ended in an action or in a
\* handled failure of the agent call, and changes at no other time.
C5_RetryPerRoundTrip ==
    [][\A i \in DOMAIN crashes :
          /\ SameCrash(i)
          /\ crashes'[i].retry_count =
                IF RoundTripCompletes /\ crashes[i].id = RoundCrash
                THEN crashes[i].retry_count + 1
                ELSE crashes[i].retry_count]_vars

\* retry_count stays within the threshold and a crash in flight in Repair
\* is below it
RetryWithinThreshold ==
    \A i \in DOMAIN crashes :
        /\ crashes[i].retry_count <= TIMES_THRESHOLD
        /\ crashes[i].id = fixing_crash => crashes[i].retry_count < TIMES_THRESHOLD

\* a round of Repair on the record at position i ended in an action that is
\* no ProposedPatch
RoundWithoutPatch(i) ==
    /\ Running("repair")
    /\ Len(crashes'[i].history) = Len(crashes[i].history) + 1
    /\ ~LastIsPatch(crashes'[i])

\* C6: retry monotonicity: a round of Repair that ends without a
\* ProposedPatch increases retry_count by exactly 1, retry_count never
\* decreases, and once it is TIMES_THRESHOLD (15) the crash is not selected
\* by Repair again, so retry_count never exceeds 15.
C6_RetryMonotone ==
    /\ []RetryWithinThreshold
    /\ [][\A i \in DOMAIN crashes :
             /\ SameCrash(i)
             /\ crashes'[i].retry_count \in
                    {crashes[i].retry_count, crashes[i].retry_count + 1}
             /\ RoundWithoutPatch(i) =>
                    crashes'[i].retry_count = crashes[i].retry_count + 1
             /\ crashes[i].retry_count = TIMES_THRESHOLD =>
                    /\ fixing_crash' # crashes[i].id
                    /\ Running("repair") => crashes'[i] = crashes[i]]_vars

\* the crash inserted second is ready for Repair
SecondCrashReady ==
    /\ Len(crashes) >= 2
    /\ crashes[2].stage = "replay"
    /\ crashes[2].reproducable = "True"
    /\ crashes[2].retry_count < TIMES_THRESHOLD

\* C7: the retry threshold is a liveness bound: while the scheduler keeps
\* ticking and every agent request completes, a crash at stage replay is not
\* selected by Repair for ever, so a crash inserted after it is eventually
\* selected by Repair.
C7_LaterCrashSelected ==
    SecondCrashReady ~> (fixing_crash = crashes[2].id \/ LoopLeft)

\* C8: Repair only ever selects a crash with stage replay, reproducible true
\* and retry_count below 15; a crash classified as not reproducible is never
\* selected by Repair, gets no history entry and never reaches stage repair.
C8_RepairSelectsReproducible ==
    /\ fixing_crash # NoCrash =>
          LET crash == Deref(crashes, fixing_crash)
          IN /\ crash.stage = "replay"
             /\ crash.reproducable = "True"
             /\ crash.retry_count < TIMES_THRESHOLD
    /\ \A i \in DOMAIN crashes :
          crashes[i].reproducable = "False" =>
              crashes[i].history = <<>> /\ crashes[i].stage # "repair"

\* the polls that see a finished command
Finished == { inspection \in Inspections : ~inspection.Running }

\* the bytes hold a sanitizer banner
HasBanner(bytes) == \E i \in DOMAIN bytes : bytes[i] \in {BannerASan, BannerUBSan}

\* the classification table of Replay for a finished command
Classified(crash, inspection) ==
    IF inspection.ExitCode = 0
    THEN crash.reproducable = "False"
    ELSE IF HasBanner(inspection.Output)
    THEN crash.reproducable = "True" /\ crash.report = Some(inspection.Output)
    ELSE crash.reproducable = "False" /\ crash.report = None

\* C9: Replay classification on command completion: exit code 0 gives
\* reproducible=false; an exit code other than 0 with a sanitizer banner in
\* the output gives reproducible=true and report equal to the captured
\* output; every other (exit code, output) gives reproducible=false with
\* report absent.
C9_ReplayClassification ==
    [][\A inspection \in Finished :
          (ReplayHandle.alive /\ ReplayRunWith(inspection))
              => Classified(Deref(crashes', ReplayingCrash), inspection)]_vars

\* C10: when its command completes Replay advances the replayed crash to
\* stage replay, whatever the classification, and writes it back; afterwards
\* Replay is idle and never selects that crash again.
C10_ReplayAdvances ==
    /\ [][\A inspection \in Finished :
             (ReplayHandle.alive /\ ReplayRunWith(inspection))
                 => /\ Deref(crashes', ReplayingCrash).stage = "replay"
                    /\ replay_handle' = NoHandle
                    /\ replaying_crash' = NoCrash]_vars
    /\ [][\A i \in DOMAIN crashes :
             crashes[i].stage # "fuzz" =>
                 replaying_crash' = replaying_crash \/ replaying_crash' # crashes[i].id]_vars

\* the polls that see a command ended with the exit code of a timeout, with
\* output that decodes
TimedOut ==
    { inspection \in Finished :
        inspection.ExitCode = 124 /\ Decodable(inspection.Output) }

\* C11: a replay whose command exits with the distinguished exit code 124 is
\* classified as timed out, a classification distinct from both reproducible
\* and non-reproducible, and this is not a fatal error: run() returns.
C11_TimeoutClassified ==
    [][\A inspection \in TimedOut :
          (ReplayHandle.alive /\ ReplayRunWith(inspection))
              => /\ RunReturns
                 /\ Deref(crashes', ReplayingCrash).reproducable
                        \notin {"True", "False"}]_vars

\* the crash with this id waits for Replay
AwaitsReplay(id) ==
    \E i \in DOMAIN crashes :
        /\ crashes[i].id = id
        /\ crashes[i].stage = "fuzz"
        /\ crashes[i].reproducable = "None"

\* the crash with this id has been classified and moved on by Replay
PastReplay(id) ==
    \E i \in DOMAIN crashes :
        /\ crashes[i].id = id
        /\ crashes[i].stage # "fuzz"
        /\ crashes[i].reproducable # "None"

\* C12: Replay runs the target with a fixed timeout, so a target that never
\* exits on its own cannot stall Replay: while the scheduler keeps ticking,
\* every crash with stage fuzz and reproducible unknown is eventually
\* classified and moved to stage replay.
C12_ReplayNeverStalls ==
    \A id \in 1..MaxArtifacts :
        AwaitsReplay(id) ~> (PastReplay(id) \/ LoopLeft)

\* a step of RepairTask.run in which the agent call of the request in
\* flight, or of the request submitted in this call, fails
AgentCallFails ==
    /\ RoundCrash # NoCrash
    /\ Deref(crashes, RoundCrash).report # None
    /\ RepairRunWith(TRUE, Failure)

\* C13: a failure of the agent call is caught inside Repair's tick: the
\* exception does not leave run(), the crash stays at stage replay, Repair
\* is idle afterwards with its sandbox closed, and the crash is eligible for
\* selection again on the next tick.
C13_AgentFailureCaught ==
    [][(Running("repair") /\ AgentCallFails) =>
          /\ RunReturns
          /\ raised' = "none"
          /\ Deref(crashes', RoundCrash).stage = "replay"
          /\ output_handle' = NoFuture
          /\ fixing_crash' = NoCrash
          /\ instance' = "none"
          /\ RepairFilter(Deref(crashes', RoundCrash))]_vars

\* Repair has just returned from a round on a crash that is still eligible,
\* with nothing added to its history: the agent call of the round failed
C13_Witness ==
    /\ phase = "run"
    /\ Tasks[task_idx] = "evaluate"
    /\ ~output_handle.alive
    /\ instance = "none"
    /\ \E i \in DOMAIN crashes :
          /\ RepairFilter(crashes[i])
          /\ crashes[i].report # None
          /\ crashes[i].history = <<>>

\* a step of RepairTask.run in which the agent's reply to the request in
\* flight, or to the request submitted in this call, is this operation
AgentReplies(operation) ==
    /\ RoundCrash # NoCrash
    /\ Deref(crashes, RoundCrash).report # None
    /\ RepairRunWith(TRUE, operation)

\* C14: when the agent's reply is a ProposedPatch, Repair appends it as the
\* last element of the crash's history, sets stage=repair and writes the
\* crash back; when the reply is a MakeNote, Repair appends its content to
\* note and the action to history and leaves stage at replay.
C14_ReplyApplied ==
    [][\A operation \in ProposedPatches \cup MakeNotes :
          (Running("repair") /\ AgentReplies(operation)) =>
              LET old == Deref(crashes, RoundCrash)
                  new == Deref(crashes', RoundCrash)
              IN /\ new.history = Append(old.history, operation)
                 /\ IF operation.type = "ProposedPatch"
                    THEN new.stage = "repair" /\ new.note = old.note
                    ELSE new.stage = "replay"
                         /\ new.note = Append(old.note, operation.content)]_vars

\* a crash that got a MakeNote and then a ProposedPatch
C14_Witness ==
    \E i \in DOMAIN crashes :
        /\ crashes[i].stage = "repair"
        /\ Len(crashes[i].history) = 2
        /\ crashes[i].history[1].type = "MakeNote"
        /\ crashes[i].history[2].type = "ProposedPatch"
        /\ crashes[i].note = <<crashes[i].history[1].content>>

\* the patch sets of one Patch with one ModifiedLine for the first file
OneLinePatches ==
    { patches \in PatchInputs :
        /\ Len(patches) = 1
        /\ patches[1].file = "/src/a.c"
        /\ Len(patches[1].diff) = 1
        /\ Len(patches[1].diff[1].content) = 1 }

\* C15: patch application is line-exact: for a file of N lines and a patch
\* with one ModifiedLine{line_number=k, content=[X]} with 1 <= k <= N, the
\* written file equals the original except that line k is X followed by a
\* newline; every other line, including its terminator, is unchanged, and so
\* is every other file.
C15_LineExact ==
    [][\A patches \in OneLinePatches :
          LET file == patches[1].file
              k == patches[1].diff[1].line_number
              X == patches[1].diff[1].content[1]
              before == SplitLines(sandbox_files[file])
              after == SplitLines(sandbox_files'[file])
          IN (CallPatchApplication(patches) /\ 1 <= k /\ k <= Len(before))
                => /\ build_handle'.alive
                   /\ Len(after) = Len(before)
                   /\ after[k] = X \o <<NL>>
                   /\ \A i \in DOMAIN before : i # k => after[i] = before[i]
                   /\ sandbox_files'[file] = Concat(after)
                   /\ \A other \in DOMAIN sandbox_files \ {file} :
                          sandbox_files'[other] = sandbox_files[other]]_vars

\* a file of two lines whose first line was replaced, the last line still
\* without a terminator
C15_Witness ==
    /\ build_handle.alive
    /\ sandbox_files["/src/a.c"] = <<"X", NL, "a">>

\* a diff for a file of N lines has a ModifiedLine outside 1..N, or one with
\* the line_number of an earlier ModifiedLine
HasBadLine(diff, N) ==
    \E i \in DOMAIN diff :
        \/ diff[i].line_number < 1
        \/ diff[i].line_number > N
        \/ \E j \in 1..(i - 1) : diff[j].line_number = diff[i].line_number

\* the patch sets of one Patch for a file of the sandbox
OnePatchSets ==
    { patches \in PatchInputs :
        Len(patches) = 1 /\ patches[1].file \in {"/src/a.c", "/src/b.c"} }

\* C16: within one Patch, a ModifiedLine whose line_number is outside 1..N,
\* or equal to that of an earlier ModifiedLine of the same Patch, makes
\* patch application return failure, and the target file of that Patch is
\* not written: it is left untouched in the sandbox.
C16_BadLineFails ==
    [][\A patches \in OnePatchSets :
          LET file == patches[1].file
              N == Len(SplitLines(sandbox_files[file]))
          IN (HasBadLine(patches[1].diff, N) /\ CallPatchApplication(patches))
                => /\ docker_instance' = "none"
                   /\ ~build_handle'.alive
                   /\ raised' = "none"
                   /\ sandbox_files' = sandbox_files]_vars

\* patch application has returned failure on a file of two lines
C16_Witness ==
    /\ docker_instance = "none"
    /\ raised = "none"
    /\ ~build_handle.alive
    /\ sandbox_files = SandboxWith(<<"a", NL, "a">>)

\* C17: patch-application failure is detected before any file write: when
\* applying a patch set returns failure, no file of the sandbox has been
\* written by that application, for any Patch of the set.
C17_FailureBeforeWrite ==
    [][\A patches \in PatchInputs :
          (CallPatchApplication(patches) /\ docker_instance' = "none")
              => sandbox_files' = sandbox_files]_vars

\* in this call of EvaluateTask.run the re-run of the crash input is polled
\* and has ended
ReRunEnds(build_inspection, run_inspection) ==
    LET s2 == EvaluateReached(build_inspection) IN
    /\ ~EvaluateLeft(s2)
    /\ s2.evaluate_handle.alive
    /\ ~run_inspection.Running

\* C18: when Evaluate's re-run of the crash input exits with code 0, the
\* crash ends with valid_patches equal to the patches of its last history
\* entry and stage=evaluate, nothing else of it changed, the record is
\* written back to the repository, and a record keyed by the crash id is
\* persisted.
C18_FixRecorded ==
    [][\A build_inspection \in EvaluateInspections :
       \A run_inspection \in EvaluateInspections :
          (/\ Running("evaluate")
           /\ run_inspection.ExitCode = 0
           /\ ReRunEnds(build_inspection, run_inspection)
           /\ EvaluateRunWith({build_inspection}, {run_inspection}))
              => LET id == EvaluateReached(build_inspection).evaluating_crash
                     old == Deref(crashes, id)
                     new == Deref(crashes', id)
                 IN /\ new = [old EXCEPT !.valid_patches = Some(LastPatches(old)),
                                         !.stage = "evaluate"]
                    /\ LastIsPatch(old)
                    /\ patches_dir' = patches_dir \cup {id}]_vars

\* a fixed crash with its patches recorded and its record persisted
C18_Witness ==
    \E i \in DOMAIN crashes :
        /\ crashes[i].stage = "evaluate"
        /\ crashes[i].valid_patches = Some(GoodPatches)
        /\ crashes[i].id \in patches_dir

\* the crash EvaluateTask.run works on in a call made in this state
EvaluatedCrash ==
    IF docker_instance # "none" THEN evaluating_crash
    ELSE LET found == get_crashes(crashes, { c \in Records(crashes) : EvaluateFilter(c) })
         IN IF found # <<>> THEN found[1].id ELSE NoCrash

\* in this call a crash is taken and the application of its patches does
\* not succeed
PatchFails ==
    /\ docker_instance = "none"
    /\ EvaluatedCrash # NoCrash
    /\ PatchApplication(LastPatches(Deref(crashes, EvaluatedCrash)), SourceTree).result
           # "True"

\* in this call the build is polled and has ended with a non-zero exit code
BuildFails(build_inspection) ==
    LET s1 == EvaluateTake(EvaluateState) IN
    /\ ~EvaluateLeft(s1)
    /\ s1.build_handle.alive
    /\ ~build_inspection.Running
    /\ build_inspection.ExitCode # 0

\* C19: every failing outcome of Evaluate for a crash (patch application
\* fails, the build exits non-zero, or the re-run exits non-zero) sets that
\* crash back to stage=replay, leaves valid_patches absent, writes the crash
\* back to the repository and returns Evaluate to idle.
C19_FailureReverts ==
    [][\A build_inspection \in EvaluateInspections :
       \A run_inspection \in EvaluateInspections :
          (/\ Running("evaluate")
           /\ \/ PatchFails
              \/ BuildFails(build_inspection)
              \/ ReRunEnds(build_inspection, run_inspection)
                     /\ run_inspection.ExitCode # 0
           /\ EvaluateRunWith({build_inspection}, {run_inspection}))
              => /\ Deref(crashes', EvaluatedCrash) =
                        [Deref(crashes, EvaluatedCrash) EXCEPT !.stage = "replay"]
                 /\ Deref(crashes', EvaluatedCrash).valid_patches = None
                 /\ RunReturns
                 /\ docker_instance' = "none"
                 /\ ~build_handle'.alive
                 /\ ~evaluate_handle'.alive
                 /\ evaluating_crash' = NoCrash]_vars

\* C20 as stated: the sandbox of Evaluate is closed at the end of every
\* tick: when any call of EvaluateTask.run returns, Evaluate holds no open
\* sandbox.
C20_ClosedAfterEveryTick ==
    [][(Running("evaluate") /\ RunReturns) => docker_instance' # "open"]_vars

\* Evaluate holds an open sandbox only for a crash in flight
OpenOnlyInFlight ==
    /\ docker_instance = "open" => evaluating_crash # NoCrash
    /\ evaluating_crash = NoCrash => docker_instance = "none"

\* C20 (amended): the sandbox of Evaluate is closed when Evaluate is done
\* with its crash, whatever the outcome: when a call of EvaluateTask.run
\* returns with no build and no re-run in flight, Evaluate holds no sandbox
\* and no crash; while a build or a re-run is in flight the sandbox stays
\* open across ticks, and a sandbox is only ever open for a crash in flight.
C20_ClosedWhenDone ==
    /\ []OpenOnlyInFlight
    /\ [][(/\ Running("evaluate")
           /\ RunReturns
           /\ ~build_handle'.alive
           /\ ~evaluate_handle'.alive)
              => docker_instance' = "none" /\ evaluating_crash' = NoCrash]_vars
    /\ [][(/\ Running("evaluate")
           /\ RunReturns
           /\ (build_handle'.alive \/ evaluate_handle'.alive))
              => docker_instance' = "open" /\ evaluating_crash' # NoCrash]_vars

\* Evaluate has returned from a failed build or re-run: the crash is back at
\* stage replay with its patch as last history entry, and the sandbox is closed
C20_Witness ==
    /\ phase = "run"
    /\ Tasks[task_idx] = "fuzz"
    /\ docker_instance = "none"
    /\ evaluating_crash = NoCrash
    /\ \E i \in DOMAIN crashes :
          /\ crashes[i].stage = "replay"
          /\ LastIsPatch(crashes[i])
          /\ LastPatches(crashes[i]) = GoodPatches

\* a call of a task's run() in this step is left by an exception
RunRaises == phase = "run" /\ phase' = "exit" /\ raised' # "none"

\* C21: no failure during a steady-state tick ends the scheduler loop before
\* the deadline: every call of a stage's run() returns normally, so the loop
\* is left only where the while condition of Manager.run fails.
C21_TickFailuresLocal ==
    [][phase = "run" => (~RunRaises /\ RunReturns)]_vars

\* every task has been closed, in the order of Manager._tasks, and no task
\* holds a running sandbox
AllReleased ==
    /\ closed = Tasks
    /\ fuzz_instance = "closed"
    /\ replay_instance = "closed"
    /\ instance = "none"
    /\ docker_instance # "open"

\* C22: on every path by which the run loop stops, the deadline or an
\* exception of a stage's run(), the scheduler calls close() on every stage
\* in the order fuzz, replay, repair, evaluate, and every stage's sandbox is
\* released: no close() is called while the loop runs, the step that follows
\* the end of the loop is the close, and it is taken.
C22_ClosedOnEveryPath ==
    /\ [](~LoopLeft => closed = <<>>)
    /\ [](phase = "closed" => AllReleased)
    /\ [][phase = "exit" => phase' = "closed"]_vars
    /\ (phase = "exit") ~> (phase = "closed")

\* the loop was left by an exception of EvaluateTask.run with Evaluate's
\* sandbox open and an agent request of Repair in flight, and all is closed
C22_Witness ==
    /\ phase = "closed"
    /\ raised # "none"
    /\ output_handle.alive
    /\ evaluating_crash # NoCrash
    /\ docker_instance = "closed"
    /\ AllReleased

\* a stage's run() is called in this step
RunCalled == phase = "run" /\ (FuzzRun \/ ReplayRun \/ RepairRun \/ EvaluateRun)

\* an initialize() fails in this step
InitializeFails ==
    phase = "enter" /\ \E outcome \in {"no sandbox", "build failed", "raise"} :
                          ManagerInitialize(outcome)

\* C23: initialization precedes work and its failure is fatal: a stage's
\* run() is called only after initialize() has returned for all four stages
\* in order, and when an initialize() fails (a non-zero build exit in Fuzz or
\* Replay, for one) the run stops there: no run() is ever called.
C23_InitializeFirst ==
    /\ [](phase \in {"check", "run"} => initialized = Tasks)
    /\ [][initialized = Tasks \/ ~RunCalled]_vars
    /\ [][InitializeFails => phase' = "failed" /\ initialized' = initialized]_vars
    /\ [][phase = "failed" => ~RunCalled /\ phase' = "failed"]_vars

\* Fuzz was initialized and the build of Replay failed
C23_Witness ==
    /\ phase = "failed"
    /\ raised = "RuntimeError"
    /\ initialized = <<"fuzz">>
    /\ replay_instance = "open"

\* the call of run() made in this step is followed by the call for the next
\* stage of the list, or, after the last stage, by the end of the iteration
NextInOrder ==
    \/ task_idx < Len(Tasks) /\ phase' = "run" /\ task_idx' = task_idx + 1
    \/ task_idx = Len(Tasks) /\ phase' = "check" /\ task_idx' = 1

\* C24: each iteration of the run loop calls run() on every stage exactly
\* once in the order fuzz, replay, repair, evaluate: it begins with Fuzz,
\* every call is followed by the call for the next stage, and it ends after
\* Evaluate; no iteration begins once the elapsed time is at or past the
\* timeout, and the loop is left once the deadline has passed.
C24_LoopOrder ==
    /\ [][(phase = "check" /\ phase' = "run") => (~expired /\ task_idx' = 1)]_vars
    /\ [][phase = "run" => NextInOrder]_vars
    /\ expired ~> LoopLeft

\* the read shows that the command has ended
ShowsCompleted(read) ==
    IF read.property = "running" THEN read.value = Some(FALSE) ELSE read.value # None

\* a read of a handle that an earlier read showed completed returns the
\* completed state, and the value an earlier read of the same property gave
ReadsStable ==
    \A i, j \in DOMAIN reads :
        (i < j /\ ShowsCompleted(reads[i])) =>
            /\ ShowsCompleted(reads[j])
            /\ reads[i].property = reads[j].property => reads[i].value = reads[j].value

\* the two states of a handle: running with nothing cached, or completed
\* with exit code and output cached
TwoStates ==
    IF replay_handle.running
    THEN replay_handle.exit_code = None /\ replay_handle.output = None
    ELSE replay_handle.exit_code # None /\ replay_handle.output # None

\* C25: a command handle has exactly two states and moves only from running
\* to completed: once a poll has seen it not running it never reports
\* running again, exit code and output are fetched at that poll, and every
\* later read of running, exit_code or output returns the cached values
\* whatever the runtime would answer.
C25_HandleCaches ==
    /\ []TwoStates
    /\ []ReadsStable
    /\ [][~replay_handle.running => replay_handle' = replay_handle]_vars

\* the handle was seen running, then seen ended, then read again
C25_Witness ==
    /\ Len(reads) = 3
    /\ reads[1] = [property |-> "running", value |-> Some(TRUE)]
    /\ reads[2] = [property |-> "running", value |-> Some(FALSE)]
    /\ reads[3] = [property |-> "exit_code", value |-> Some(1)]

\* C26: close() on a sandbox whose container an earlier close() has stopped
\* and removed returns without raising and leaves the state unchanged.
C26_CloseIdempotent ==
    [][(docker_instance = "closed" /\ CallClose) =>
         (raised' = raised /\ docker_instance' = docker_instance
          /\ sandbox_files' = sandbox_files)]_vars

\* the crash artifacts of the results directory
ArtifactsOf(dir) == IF dir = None THEN {} ELSE { name \in dir[1] : StartsWithId(name) }

\* every record stems from one artifact of the results directory, and no
\* two records from the same one
OnePerArtifact ==
    /\ \A i, j \in DOMAIN crashes : crashes[i].input = crashes[j].input => i = j
    /\ \A i \in DOMAIN crashes :
          \E name \in ArtifactsOf(out_dir) :
              name \in seen_crashes /\ crashes[i].input = ArtifactData(name)
    /\ Len(crashes) = Cardinality(seen_crashes)

\* what a step adds to the repository is a fresh Crash made from an
\* artifact that had not been seen, and the step is a step of Fuzz
InsertedByFuzz ==
    /\ Len(crashes') >= Len(crashes)
    /\ \A i \in DOMAIN crashes : crashes'[i].id = crashes[i].id
                                 /\ crashes'[i].input = crashes[i].input
    /\ \A i \in (Len(crashes) + 1)..Len(crashes') :
          /\ phase = "run" /\ Tasks[task_idx] = "fuzz"
          /\ crashes'[i].stage = "fuzz"
          /\ crashes'[i].reproducable = "None"
          /\ \E name \in ArtifactsOf(out_dir') \ seen_crashes :
                crashes'[i].input = ArtifactData(name)

\* C27: over the whole run Fuzz inserts at most one Crash per artifact name
\* (an artifact still in the results directory after a later campaign is not
\* inserted again), and every inserted Crash has stage fuzz, reproducibility
\* unknown and the artifact's bytes as input.
C27_OnePerArtifact ==
    /\ []OnePerArtifact
    /\ [][InsertedByFuzz]_vars

\* a campaign has just ended with the first artifact, inserted by an earlier
\* campaign and already taken on by the pipeline, still in the directory
C27_Witness ==
    /\ phase = "run" /\ task_idx = 2 /\ ~fuzz_handle.alive
    /\ out_dir = Some(DirWith(2))
    /\ Len(crashes) = 2
    /\ crashes[1].stage # "fuzz" /\ crashes[1].input = ArtifactData(<<"id:", 1>>)
    /\ crashes[2].stage = "fuzz" /\ crashes[2].input = ArtifactData(<<"id:", 2>>)

\* position of the record with that id
IndexOf(id) == CHOOSE i \in DOMAIN crashes : crashes[i].id = id

\* the id of the earliest-inserted record a stage's predicate accepts
Earliest(Accepts(_)) ==
    IF \E i \in DOMAIN crashes : Accepts(crashes[i])
    THEN crashes[CHOOSE i \in DOMAIN crashes :
                    Accepts(crashes[i]) /\ \A j \in 1..(i - 1) : ~Accepts(crashes[j])].id
    ELSE NoCrash

\* the step touches no record but the one with that id
TouchesOnly(id) == \A i \in DOMAIN crashes : crashes'[i] # crashes[i] => crashes[i].id = id

ReplayPicksEarliest ==
    (phase = "run" /\ Tasks[task_idx] = "replay" /\ ~replay_handle.alive) =>
        LET e == Earliest(ReplayFilter) IN
        /\ replaying_crash' \in {NoCrash, e}
        /\ TouchesOnly(e)
        /\ e # NoCrash => (replay_handle'.alive \/ crashes' # crashes)

RepairPicksEarliest ==
    (phase = "run" /\ Tasks[task_idx] = "repair" /\ ~output_handle.alive) =>
        LET e == Earliest(RepairFilter) IN
        /\ fixing_crash' \in {NoCrash, e}
        /\ TouchesOnly(e)
        /\ e # NoCrash => last_repairing' = e

EvaluatePicksEarliest ==
    (phase = "run" /\ Tasks[task_idx] = "evaluate" /\ docker_instance = "none") =>
        LET e == Earliest(EvaluateFilter) IN
        /\ evaluating_crash' \in {NoCrash, e}
        /\ TouchesOnly(e)
        /\ e # NoCrash => (docker_instance' = "open" \/ crashes' # crashes)

\* Repair begins a round while the crash of its previous round is still in
\* stage replay below the threshold
NextRound ==
    /\ phase = "run" /\ Tasks[task_idx] = "repair" /\ ~output_handle.alive
    /\ Earliest(RepairFilter) # NoCrash
    /\ last_repairing # NoCrash
    /\ RepairFilter(Deref(crashes, last_repairing))

\* the crash Repair selects was inserted before the crash of the previous
\* round and has come back from Evaluate: its last operation is a patch
EarlierCameBack ==
    LET crash == Deref(crashes, last_repairing') IN
    /\ IndexOf(last_repairing') < IndexOf(last_repairing)
    /\ crash.history # <<>>
    /\ crash.history[Len(crash.history)].type = "ProposedPatch"

\* C28 as stated: each of Replay, Repair and Evaluate, when idle, picks the
\* earliest-inserted crash matching its predicate; consequently Repair
\* re-selects the same crash on consecutive rounds until that crash leaves
\* stage replay or reaches the retry threshold.
C28_SameCrashReselected ==
    /\ [][ReplayPicksEarliest /\ RepairPicksEarliest /\ EvaluatePicksEarliest]_vars
    /\ [][NextRound => last_repairing' = last_repairing]_vars

\* C28 amended: each idle stage picks the earliest-inserted crash matching
\* its predicate; consequently Repair re-selects the same crash on
\* consecutive rounds until that crash leaves stage replay or reaches the
\* retry threshold, or until Evaluate sends an earlier-inserted crash back to
\* stage replay, which is then selected instead.
C28_EarliestMatchSelected ==
    /\ [][ReplayPicksEarliest /\ RepairPicksEarliest /\ EvaluatePicksEarliest]_vars
    /\ [][NextRound => (last_repairing' = last_repairing \/ EarlierCameBack)]_vars

\* Repair works on the first crash again, sent back by Evaluate, while the
\* second crash, which had a round in between, is still in stage replay
C28_Witness ==
    /\ Len(crashes) >= 2
    /\ output_handle.alive /\ fixing_crash = crashes[1].id
    /\ crashes[1].history # <<>>
    /\ crashes[1].history[Len(crashes[1].history)].type = "ProposedPatch"
    /\ crashes[2].history # <<>>
    /\ RepairFilter(crashes[2])

\* what each stage has outstanding: Evaluate's build and re-run never
\* together, and every outstanding operation belongs to the one crash the
\* stage has in flight
OneOutstanding ==
    /\ ~(build_handle.alive /\ evaluate_handle.alive)
    /\ fuzz_handle.alive => is_resuming
    /\ replay_handle.alive => replaying_crash # NoCrash
    /\ output_handle.alive => fixing_crash # NoCrash
    /\ (build_handle.alive \/ evaluate_handle.alive) => evaluating_crash # NoCrash

\* a step of a stage whose operation is outstanding starts nothing over it:
\* no other crash is taken on, no request is submitted, no campaign launched
NoneStartedOver ==
    /\ fuzz_handle.alive => is_resuming' = is_resuming
    /\ replay_handle.alive => replaying_crash' \in {replaying_crash, NoCrash}
    /\ output_handle.alive =>
          (fixing_crash' \in {fixing_crash, NoCrash} /\ last_repairing' = last_repairing)
    /\ (build_handle.alive \/ evaluate_handle.alive) =>
          evaluating_crash' \in {evaluating_crash, NoCrash}
    /\ build_handle.alive =>
          (build_handle'.alive \/ evaluate_handle'.alive \/ evaluating_crash' = NoCrash
           \/ raised' # "none")

UpdateReplacesInPlace(crash) ==
    LET updated == update_crash(crashes, crash) IN
    /\ Len(updated) = Len(crashes)
    /\ \A i \in DOMAIN crashes :
          updated[i] = IF crashes[i].id = crash.id THEN crash ELSE crashes[i]
    /\ (\A i \in DOMAIN crashes : crashes[i].id # crash.id) => updated = crashes

\* C30: update_crash replaces exactly the record whose id matches, at the
\* same position, and leaves every other record and the order unchanged; if
\* no record has that id it leaves the repository unchanged and inserts
\* nothing.
C30_UpdateInPlace ==
    /\ [](\A crash \in CrashValues : UpdateReplacesInPlace(crash))
    /\ [][CallUpdateCrash =>
            /\ Len(crashes') = Len(crashes)
            /\ \A i \in DOMAIN crashes : crashes'[i].id = crashes[i].id
            /\ \A i, j \in DOMAIN crashes :
                  (crashes'[i] # crashes[i] /\ crashes'[j] # crashes[j]) => i = j]_vars

\* two records, the second one replaced by an update, and an id no record has
C30_Witness ==
    /\ Len(crashes) = 2
    /\ crashes[1] = NewCrash(2, "fuzz", <<>>)
    /\ crashes[2] = [NewCrash(1, "replay", <<>>) EXCEPT !.retry_count = 1]
    /\ \A i \in DOMAIN crashes : crashes[i].id # 3

\* the last entry of a crash's history is a ProposedPatch
EndsWithPatch(crash) ==
    /\ crash.history # <<>>
    /\ crash.history[Len(crash.history)].type = "ProposedPatch"

\* C31: a crash in stage repair has a non-empty history whose last element
\* is a ProposedPatch, so history[-1].patches is defined whenever Evaluate
\* reads it; and nothing appends to the history of a crash between Repair
\* setting stage repair and Evaluate finishing that crash.
C31_PatchIsLast ==
    /\ [](\A i \in DOMAIN crashes : crashes[i].stage = "repair" => EndsWithPatch(crashes[i]))
    /\ [](evaluating_crash # NoCrash => EndsWithPatch(Deref(crashes, evaluating_crash)))
    /\ [][\A i \in DOMAIN crashes :
             crashes[i].stage = "repair" => crashes'[i].history = crashes[i].history]_vars

\* Evaluate is building the patch of a crash whose history holds a note and
\* then the patch
C31_Witness ==
    /\ evaluating_crash # NoCrash /\ build_handle.alive
    /\ LET crash == Deref(crashes, evaluating_crash) IN
       /\ crash.stage = "repair"
       /\ Len(crash.history) = 2
       /\ crash.history[1].type = "MakeNote"
       /\ crash.history[2].type = "ProposedPatch"

\* no stage takes the crash in flight in this step
NotSelected(id) ==
    /\ replaying_crash' = id => replaying_crash = id
    /\ fixing_crash' = id => fixing_crash = id
    /\ evaluating_crash' = id => evaluating_crash = id
    /\ last_repairing' = id => last_repairing = id

\* C32: valid_patches is present exactly when the crash is in stage
\* evaluate, and a crash in stage evaluate is terminal: no later tick of any
\* stage selects it or changes any of its fields.
C32_EvaluateTerminal ==
    /\ [](\A i \in DOMAIN crashes :
             (crashes[i].valid_patches # None) <=> (crashes[i].stage = "evaluate"))
    /\ [](\A i \in DOMAIN crashes :
             crashes[i].stage = "evaluate" =>
                crashes[i].id \notin {replaying_crash, fixing_crash, evaluating_crash})
    /\ [][\A i \in DOMAIN crashes :
             crashes[i].stage = "evaluate" =>
                (crashes'[i] = crashes[i] /\ NotSelected(crashes[i].id))]_vars

\* the first crash is fixed and Repair has gone on to the second
C32_Witness ==
    /\ Len(crashes) = 2
    /\ crashes[1].stage = "evaluate" /\ crashes[1].valid_patches # None
    /\ output_handle.alive /\ fixing_crash = crashes[2].id

\* the states between two calls of run() and after the last one
TickBoundary == phase \in {"check", "run", "exit"}

\* RepairTask's _instance, _output_handle and _fixing_crash are all set or
\* all unset
RepairAllOrNone ==
    /\ (instance = "open") <=> output_handle.alive
    /\ output_handle.alive <=> (fixing_crash # NoCrash)

\* C33: at every tick boundary Repair holds a pulled sandbox exactly when it
\* has an agent request and a crash in flight; every sandbox it creates is
\* closed when its request completes, after a success as after a failure, so
\* no sandbox of Repair is left open across rounds.
C33_RepairSandboxPaired ==
    /\ [](TickBoundary => RepairAllOrNone)
    /\ [][(output_handle.alive /\ ~output_handle'.alive) => instance' = "none"]_vars
    /\ [][(instance = "open" /\ fixing_crash' # fixing_crash) => instance' = "none"]_vars

\* EvaluateTask holds a sandbox exactly when it has a crash in flight, and
\* then exactly one of its two handles
EvaluateConsistent ==
    /\ (docker_instance = "open") <=> (evaluating_crash # NoCrash)
    /\ IF evaluating_crash # NoCrash
       THEN build_handle.alive # evaluate_handle.alive
       ELSE ~build_handle.alive /\ ~evaluate_handle.alive

\* C34: at every tick boundary Evaluate holds a sandbox exactly when it has
\* a crash in flight, and then exactly one of its build handle and its
\* evaluate handle is outstanding; the sandbox is closed on each of the four
\* outcomes (patch failure, build failure, re-run failure, success) before
\* the next crash is taken.
C34_EvaluateSandboxPaired ==
    /\ [](TickBoundary => EvaluateConsistent)
    /\ [][(evaluating_crash # NoCrash /\ evaluating_crash' # evaluating_crash) =>
             (docker_instance' = "none" /\ evaluating_crash' = NoCrash)]_vars
    /\ [][(evaluating_crash = NoCrash /\ crashes' # crashes
           /\ phase = "run" /\ Tasks[task_idx] = "evaluate") =>
             docker_instance' = "none"]_vars

\* two ModifiedLines of the patch set, the second later in the application,
\* address the same line of the same file
TargetsTwice(patches) ==
    \E p, q \in DOMAIN patches :
        \E i \in DOMAIN patches[p].diff, j \in DOMAIN patches[q].diff :
            /\ p < q \/ (p = q /\ i < j)
            /\ patches[p].file = patches[q].file
            /\ patches[p].diff[i].line_number = patches[q].diff[j].line_number

\* C35: within one application of a patch set no line of a file is
\* rewritten twice: a ModifiedLine that targets a line an earlier
\* ModifiedLine has rewritten aborts the application, also when the two
\* belong to different Patch entries that name the same file.
C35_NoLineTwice ==
    [][\A patches \in PatchInputs :
          (TargetsTwice(patches) /\ CallPatchApplication(patches)) =>
              ~build_handle'.alive]_vars

\* C36: when initialize() of a later stage fails after earlier stages have
\* acquired their sandboxes, close() is still called on the stages already
\* initialized, so no container acquired during a failed startup stays
\* running.
C36_StartupReleased ==
    /\ (phase = "failed" /\ initialized # <<>>) ~> (closed = initialized)
    /\ (phase = "failed" /\ initialized # <<>>) ~>
          (fuzz_instance # "open" /\ replay_instance # "open")

\* the step appends a RequestCode to the history of the crash at position i
RequestCodeAppended(i) ==
    /\ Len(crashes'[i].history) = Len(crashes[i].history) + 1
    /\ crashes'[i].history[Len(crashes'[i].history)].type = "RequestCode"

\* C37: a RequestCode for code that was already requested for the crash is
\* skipped, leaving requested_content and note unchanged; a RequestCode for
\* code not requested before merges the lines around the requested line into
\* requested_content[file] and appends one note.
C37_RequestCodeMerged ==
    [][\A i \in DOMAIN crashes :
          RequestCodeAppended(i) =>
             LET operation == crashes'[i].history[Len(crashes'[i].history)] IN
             IF operation.file \in DOMAIN crashes[i].requested_content
             THEN /\ crashes'[i].requested_content = crashes[i].requested_content
                  /\ crashes'[i].note = crashes[i].note
             ELSE /\ operation.file \in DOMAIN crashes'[i].requested_content
                  /\ Len(crashes'[i].note) = Len(crashes[i].note) + 1]_vars

\* Fuzz is called with no campaign handle: this call launches a campaign,
\* with "-i -" (resume) when _is_resuming is set and "-i /eval" (the seeds)
\* otherwise
FuzzIdle == phase = "run" /\ Tasks[task_idx] = "fuzz" /\ ~fuzz_handle.alive

\* the launch of this call shows afterwards: the campaign runs, or it has
\* ended within the call and its results directory was looked at
Launched ==
    /\ is_resuming'
    /\ \/ fuzz_handle'.alive /\ fuzz_handle'.running
       \/ raised' # "none"
       \/ out_dir' # None

\* C38: whenever Fuzz has no campaign active it launches one in that tick;
\* the launch resumes exactly when a results directory already exists and is
\* seeded from the initial corpus otherwise, so that no launch after a
\* campaign that left no results directory is a resumed one.
C38_ResumeIffResults ==
    /\ [][FuzzIdle => Launched]_vars
    /\ [][FuzzIdle => (is_resuming <=> (out_dir # None))]_vars
    /\ []((is_resuming /\ out_dir = None) => fuzz_handle.alive)

\* a resumed campaign is running: the one before it left a results directory
C38_Witness ==
    /\ fuzz_handle.alive /\ fuzz_handle.running
    /\ is_resuming /\ out_dir # None
    /\ crashes # <<>>

\* C39: for every crash Fuzz has created, reproducable is unknown exactly
\* when the crash is in stage fuzz, a report is present exactly when
\* reproducable is true, and once Replay has set reproducable and report no
\* later operation changes them.
C39_ReplayFieldsFixed ==
    /\ [](\A i \in DOMAIN crashes :
             /\ (crashes[i].reproducable = "None") <=> (crashes[i].stage = "fuzz")
             /\ (crashes[i].report # None) <=> (crashes[i].reproducable = "True"))
    /\ [][\A i \in DOMAIN crashes :
             crashes[i].reproducable # "None" =>
                /\ crashes'[i].reproducable = crashes[i].reproducable
                /\ crashes'[i].report = crashes[i].report]_vars

\* a reproduced crash that Repair and Evaluate have worked on, beside one
\* that did not reproduce
C39_Witness ==
    /\ Len(crashes) = 2
    /\ crashes[1].reproducable = "True" /\ crashes[1].report # None
    /\ crashes[1].stage = "evaluate"
    /\ crashes[2].reproducable = "False" /\ crashes[2].report = None
    /\ crashes[2].stage = "replay"

\* the original text with every line a ModifiedLine of the diff addresses
\* replaced by the joined content and a newline, the other lines as they are
Rewritten(text, diff) ==
    LET original == SplitLines(text) IN
    Concat([k \in DOMAIN original |->
              IF \E i \in DOMAIN diff : diff[i].line_number = k
              THEN LET i == CHOOSE i \in DOMAIN diff : diff[i].line_number = k
                   IN JoinNL(diff[i].content) \o <<NL>>
              ELSE original[k]])

\* C40: the ModifiedLines of one Patch address line numbers of the original
\* file: replacing a line by several content lines does not shift the line a
\* later ModifiedLine addresses, and the file written is the original with
\* each addressed line replaced by its joined content plus a newline and
\* every other line kept, in order.
C40_OriginalLineNumbers ==
    [][\A patch \in Patches :
          (CallPatchApplication(<<patch>>) /\ build_handle'.alive) =>
              /\ sandbox_files'[patch.file] = Rewritten(sandbox_files[patch.file], patch.diff)
              /\ \A f \in DOMAIN sandbox_files \ {patch.file} :
                    sandbox_files'[f] = sandbox_files[f]]_vars

\* line 1 was replaced by the two lines X and Y and the second line of the
\* original by X
C40_Witness ==
    /\ build_handle.alive
    /\ sandbox_files["/src/a.c"] = <<"X", NL, "Y", NL, "X", NL>>

====
